---- MODULE Spec2Model ----
(***************************************************************************)
(* Model of the import formatter of the Rubick CAST formatting tool        *)
(* (src/src/core/import_formatter.py): the merge of a size-chart workbook  *)
(* and a product-details workbook into one workbook with a Types and a     *)
(* Values sheet.                                                           *)
(*                                                                         *)
(* Text is modelled as a sequence of one-character strings, so that        *)
(* lower-casing, trimming, substring search and ordering are computed.     *)
(* A table (pandas DataFrame) is a record [cols, rows]: cols the sequence  *)
(* of column labels (labels may repeat), rows a sequence of rows, each a   *)
(* sequence of cells aligned with cols.  A cell is a text or None.         *)
(***************************************************************************)
EXTENDS Integers, Sequences, FiniteSets, TLC

(***************************************************************************)
(* Bounds of the model.                                                    *)
(***************************************************************************)
\* longest column list handed to find_style_column on its own
MaxCols == 3
\* longest series handed to aggregate_list on its own
MaxLen == 3
\* most rows of a size-chart sheet whose cells are enumerated
MaxRows == 2
\* most sheets of a workbook
MaxSheets == 2

(***************************************************************************)
(* Text.                                                                   *)
(***************************************************************************)
\* the absent value (Python None, pandas NaN): no text equals it
None == <<"None">>

UpperChars == <<"A","B","C","D","E","F","G","H","I","J","K","L","M",
                "N","O","P","Q","R","S","T","U","V","W","X","Y","Z">>

LowerChars == <<"a","b","c","d","e","f","g","h","i","j","k","l","m",
                "n","o","p","q","r","s","t","u","v","w","x","y","z">>

DigitChars == <<"0","1","2","3","4","5","6","7","8","9">>

\* the characters of the model in code-point order
CodeOrder == <<"\t", " ", "'", ",", "-", ".">> \o DigitChars \o <<":">> \o UpperChars
             \o <<"[", "]", "_">> \o LowerChars

Range(s) == {s[i] : i \in 1..Len(s)}

CharSet == Range(CodeOrder)

Ord == [c \in CharSet |-> CHOOSE i \in 1..Len(CodeOrder) : CodeOrder[i] = c]

ToLower == [c \in CharSet |->
              IF c \in Range(UpperChars)
              THEN LowerChars[CHOOSE i \in 1..Len(UpperChars) : UpperChars[i] = c]
              ELSE c]

\* str.lower
lower(s) == [i \in 1..Len(s) |-> ToLower[s[i]]]

\* the regular expression class \s
IsSpace(c) == c \in {" ", "\t"}

\* str.strip
RECURSIVE lstrip(_)
lstrip(s) == IF s # <<>> /\ IsSpace(Head(s)) THEN lstrip(Tail(s)) ELSE s

RECURSIVE rstrip(_)
rstrip(s) == IF s # <<>> /\ IsSpace(s[Len(s)]) THEN rstrip(SubSeq(s, 1, Len(s) - 1)) ELSE s

strip(s) == rstrip(lstrip(s))

\* sub in s
Contains(s, sub) == \E i \in 0..(Len(s) - Len(sub)) : SubSeq(s, i + 1, i + Len(sub)) = sub

\* re.search(pattern, s, re.I) for a pattern without metacharacters
SearchI(pattern, s) == Contains(lower(s), lower(pattern))

\* a < b for Python str
RECURSIVE StrLess(_, _)
StrLess(a, b) ==
    IF a = <<>> THEN b # <<>>
    ELSE IF b = <<>> THEN FALSE
    ELSE IF Head(a) = Head(b) THEN StrLess(Tail(a), Tail(b))
    ELSE Ord[Head(a)] < Ord[Head(b)]

\* sep.join(parts)
RECURSIVE Join(_, _)
Join(sep, parts) ==
    IF parts = <<>> THEN <<>>
    ELSE IF Len(parts) = 1 THEN parts[1]
    ELSE parts[1] \o sep \o Join(sep, Tail(parts))

\* the elements of a finite set of texts as a sorted sequence
RECURSIVE SortedSeq(_)
SortedSeq(S) ==
    IF S = {} THEN <<>>
    ELSE LET m == CHOOSE x \in S : \A y \in S \ {x} : StrLess(x, y)
         IN  <<m>> \o SortedSeq(S \ {m})

\* the first-occurrence order of the distinct elements of a sequence
RECURSIVE Unique(_)
Unique(s) ==
    IF s = <<>> THEN <<>>
    ELSE LET init == Unique(SubSeq(s, 1, Len(s) - 1))
             x == s[Len(s)]
         IN  IF x \in Range(init) THEN init ELSE Append(init, x)

\* position of the first occurrence of x in s (0: none)
IndexOf(s, x) == IF x \in Range(s) THEN CHOOSE i \in 1..Len(s) : s[i] = x /\ \A j \in 1..(i - 1) : s[j] # x
                 ELSE 0

\* all sequences over S of length at most n
SeqsUpTo(S, n) == UNION {[1..k -> S] : k \in 0..n}

(***************************************************************************)
(* Column names and cell values of the model.                              *)
(***************************************************************************)
styleId == <<"s","t","y","l","e","I","d">>
STYLEID == <<"S","T","Y","L","E","I","D">>
Style_ID == <<"S","t","y","l","e","_","I","D">>
StyleIdentifier == <<"S","t","y","l","e","I","d","e","n","t","i","f","i","e","r">>
SKU == <<"S","K","U">>
SkuCode == <<"S","k","u","C","o","d","e">>
Color == <<"C","o","l","o","r">>
color == <<"c","o","l","o","r">>
Name == <<"N","a","m","e">>
Price == <<"P","r","i","c","e">>
Notes == <<"N","o","t","e","s">>
BrandSize == <<"B","r","a","n","d"," ","S","i","z","e">>
UKSize == <<"U","K"," ","S","i","z","e">>
uksize == <<"u","k","s","i","z","e">>
EUSize == <<"E","U"," ","S","i","z","e">>
ProductImageURL == <<"P","r","o","d","u","c","t"," ","I","m","a","g","e"," ","U","R","L">>
ImgLink == <<"I","M","G","l","i","n","k">>
CdnPath == <<"C","d","n"," ","P","a","t","h">>

S1 == <<"S","1">>
S2 == <<"S","2">>
Red == <<"R","e","d">>
Blue == <<"B","l","u","e">>
M == <<"M">>
six == <<"6">>
eight == <<"8">>

(***************************************************************************)
(* The pure functions of import_formatter.py.                              *)
(***************************************************************************)
\* normalize_col: lower-case, every whitespace character removed
normalize_col(col) == SelectSeq(lower(col), LAMBDA c : ~IsSpace(c))

\* the three patterns of find_style_column, in the order of its list
\* 1: ^style[_\s\-]?id$   2: ^sku$   3: styleid   (all with re.I)
PatternMatches(p, c) ==
    LET l == lower(c)
        style == <<"s","t","y","l","e">>
        id == <<"i","d">>
    IN  CASE p = 1 -> \/ l = style \o id
                      \/ /\ Len(l) = 8
                         /\ SubSeq(l, 1, 5) = style
                         /\ (l[6] \in {"_", "-"} \/ IsSpace(l[6]))
                         /\ SubSeq(l, 7, 8) = id
          [] p = 2 -> l = <<"s","k","u">>
          [] p = 3 -> Contains(l, style \o id)

NumPatterns == 3

\* find_style_column: the outer loop runs over the columns, the inner loop over
\* the patterns; the result is the pair (found_column, suggestion)
RECURSIVE find_style_column(_)
find_style_column(columns) ==
    IF columns = <<>> THEN <<None, None>>
    ELSE IF \E p \in 1..NumPatterns : PatternMatches(p, Head(columns))
         THEN <<Head(columns), None>>
         ELSE LET rest == find_style_column(Tail(columns))
              IN  IF rest[1] # None THEN rest ELSE <<None, Head(columns)>>

\* a search that takes the first column containing "size", "brand" or not
find_first_size_column(columns) ==
    LET size == {i \in 1..Len(columns) : Contains(lower(columns[i]), <<"s","i","z","e">>)}
    IN  IF size # {} THEN columns[CHOOSE i \in size : \A j \in size : i <= j] ELSE None

\* find_brand_size_column
find_brand_size_column(columns) ==
    LET both == {i \in 1..Len(columns) :
                    Contains(lower(columns[i]), <<"b","r","a","n","d">>)
                    /\ Contains(lower(columns[i]), <<"s","i","z","e">>)}
        size == {i \in 1..Len(columns) : Contains(lower(columns[i]), <<"s","i","z","e">>)}
        Min(S) == CHOOSE i \in S : \A j \in S : i <= j
    IN  IF both # {} THEN columns[Min(both)]
        ELSE IF size # {} THEN columns[Min(size)]
        ELSE None

\* the texts .replace({"": None, "nan": None, "none": None}) turns into None
ReplacedByNone(v) == v \in {<<>>, <<"n","a","n">>, <<"n","o","n","e">>}

\* an aggregation that joins every kept value, repeated ones included
aggregate_list_repeating(series) ==
    LET present == SelectSeq(series, LAMBDA v : v # None)
        stripped == [i \in 1..Len(present) |-> strip(present[i])]
        kept == SelectSeq(stripped, LAMBDA v : ~ReplacedByNone(v))
    IN  IF Len(kept) > 0 THEN Join(<<",">>, kept) ELSE None

\* aggregate_list: dropna, strip, replace, dropna, unique, join
aggregate_list(series) ==
    LET present == SelectSeq(series, LAMBDA v : v # None)
        stripped == [i \in 1..Len(present) |-> strip(present[i])]
        kept == SelectSeq(stripped, LAMBDA v : ~ReplacedByNone(v))
        vals == Unique(kept)
    IN  IF Len(vals) > 0 THEN Join(<<",">>, vals) ELSE None

\* image_patterns = ["image", "img", "url", "cdn"]
image_patterns == << <<"i","m","a","g","e">>, <<"i","m","g">>, <<"u","r","l">>, <<"c","d","n">> >>

\* a type inference that compares the patterns without folding the letter case
infer_column_type_cased(col_name) ==
    IF \E i \in 1..Len(image_patterns) : Contains(col_name, image_patterns[i])
    THEN <<"i","m","a","g","e">> ELSE <<"s","t","r","i","n","g">>

\* infer_column_type
infer_column_type(col_name) ==
    IF \E i \in 1..Len(image_patterns) : SearchI(image_patterns[i], col_name)
    THEN <<"i","m","a","g","e">> ELSE <<"s","t","r","i","n","g">>

(***************************************************************************)
(* Tables.                                                                 *)
(***************************************************************************)
\* pd.DataFrame()
EmptyDataFrame == [cols |-> <<>>, rows |-> <<>>]

\* DataFrame.empty: some axis has length zero
empty(df) == Len(df.cols) = 0 \/ Len(df.rows) = 0

\* the positions of a label among the columns
Positions(cols, label) == SelectSeq([i \in 1..Len(cols) |-> i], LAMBDA i : cols[i] = label)

HasDuplicates(cols) == \E i, j \in 1..Len(cols) : i < j /\ cols[i] = cols[j]

\* df[label] for a label that occurs once
ColumnOf(df, label) == [r \in 1..Len(df.rows) |-> df.rows[r][IndexOf(df.cols, label)]]

\* the texts the reader turns into NaN (pandas' default na_values, as far as
\* they can be written with the characters of the model)
NaValues == {<<>>, <<"n","a","n">>, <<"N","a","N">>, <<"N","A">>, <<"N","U","L","L">>,
             <<"n","u","l","l">>}

\* xl.parse(sheet, dtype=str): the header row gives the labels, every other cell is
\* a text, or NaN when the cell is empty or holds one of the default NA texts
parse(sheet) ==
    [cols |-> sheet.cols,
     rows |-> [r \in 1..Len(sheet.rows) |->
                 [c \in 1..Len(sheet.rows[r]) |->
                    IF sheet.rows[r][c] = None \/ sheet.rows[r][c] \in NaValues
                    THEN None ELSE sheet.rows[r][c]]]]

\* the sheet of a workbook with the given name
SheetNamed(xl, name) == xl[CHOOSE i \in 1..Len(xl) : xl[i].name = name]

sheet_names(xl) == [i \in 1..Len(xl) |-> xl[i].name]

(***************************************************************************)
(* The column registry: canonical_cols and ordered_columns.                *)
(***************************************************************************)
\* a registration that skips the "key not in canonical_cols" test
RegisterAlways(reg, col) ==
    [canonical_cols |-> (normalize_col(col) :> col) @@ reg.canonical_cols,
     ordered_columns |-> Append(reg.ordered_columns, col)]

\* key = normalize_col(col); if key not in canonical_cols: record and append
RegisterOne(reg, col) ==
    LET key == normalize_col(col)
    IN  IF key \notin DOMAIN reg.canonical_cols
        THEN [canonical_cols |-> reg.canonical_cols @@ (key :> col),
              ordered_columns |-> Append(reg.ordered_columns, col)]
        ELSE reg

RECURSIVE RegisterAll(_, _)
RegisterAll(reg, cols) ==
    IF cols = <<>> THEN reg ELSE RegisterAll(RegisterOne(reg, Head(cols)), Tail(cols))

\* prod_df.rename(columns=lambda c: canonical_cols[normalize_col(c)])
RenameCanonical(df, canonical_cols) ==
    [cols |-> [i \in 1..Len(df.cols) |-> canonical_cols[normalize_col(df.cols[i])]],
     rows |-> df.rows]

(***************************************************************************)
(* Size aggregation: melt, groupby/apply, pivot.                           *)
(***************************************************************************)
\* size_df.columns[size_df.columns.get_loc(brand_col):]
SizeCols(size_df, brand_col) == SubSeq(size_df.cols, IndexOf(size_df.cols, brand_col), Len(size_df.cols))

\* size_df.melt(id_vars=[style_size], value_vars=size_cols): one record per
\* (value column, row), column by column
melt(size_df, style_size, size_cols) ==
    LET n == Len(size_df.rows)
        idc == IndexOf(size_df.cols, style_size)
    IN  [k \in 1..(Len(size_cols) * n) |->
           LET c == ((k - 1) \div n) + 1
               r == ((k - 1) % n) + 1
           IN  [id |-> size_df.rows[r][idc],
                col |-> size_cols[c],
                val |-> size_df.rows[r][IndexOf(size_df.cols, size_cols[c])]]]

\* the "val" series of one group, in the order of the melted rows
GroupSeries(melted, id, col) ==
    LET sel == SelectSeq(melted, LAMBDA m : m.id = id /\ m.col = col)
    IN  [i \in 1..Len(sel) |-> sel[i].val]

\* melted.groupby([style_size, "col"])["val"].apply(aggregate_list).reset_index()
\* followed by .pivot(index=style_size, columns="col", values="val").reset_index():
\* groupby drops the rows whose key is NaN; the pivot has one row per identifier
\* and one column per value column, both sorted
pivot_aggregated(size_df, style_size, size_cols) ==
    LET melted == melt(size_df, style_size, size_cols)
        ids == SortedSeq({melted[k].id : k \in 1..Len(melted)} \ {None})
        cols == IF ids = <<>> THEN <<>> ELSE SortedSeq(Range(size_cols))
    IN  [cols |-> <<style_size>> \o cols,
         rows |-> [i \in 1..Len(ids) |->
                     <<ids[i]>> \o [c \in 1..Len(cols) |->
                                      aggregate_list(GroupSeries(melted, ids[i], cols[c]))]]]

\* pivot.rename(columns={style_size: style_prod})
RenameLabel(df, old, new) ==
    [cols |-> [i \in 1..Len(df.cols) |-> IF df.cols[i] = old THEN new ELSE df.cols[i]],
     rows |-> df.rows]

(***************************************************************************)
(* The outer join of the product table with the pivot.                     *)
(***************************************************************************)
suffix_x == <<"_","x">>
suffix_y == <<"_","y">>

\* stable sort of rows by the text at position k, NaN last
RECURSIVE SortRowsBy(_, _)
SortRowsBy(rows, k) ==
    IF rows = <<>> THEN <<>>
    ELSE LET Before(a, b) == a # None /\ (b = None \/ StrLess(a, b))
             m == CHOOSE i \in 1..Len(rows) :
                     /\ \A j \in 1..Len(rows) : ~Before(rows[j][k], rows[i][k])
                     /\ \A j \in 1..(i - 1) : Before(rows[i][k], rows[j][k])
         IN  <<rows[m]>> \o SortRowsBy(SubSeq(rows, 1, m - 1) \o SubSeq(rows, m + 1, Len(rows)), k)

\* a merge that pairs no rows: every row of either table stands alone
merge_unpaired(left, right, key) ==
    LET lk == IndexOf(left.cols, key)
        rk == IndexOf(right.cols, key)
        rothers == SelectSeq([i \in 1..Len(right.cols) |-> i], LAMBDA i : i # rk)
        lonely == [i \in 1..Len(left.rows) |-> left.rows[i] \o [j \in 1..Len(rothers) |-> None]]
        ronly == [i \in 1..Len(right.rows) |->
                    [c \in 1..Len(left.cols) |-> IF c = lk THEN right.rows[i][rk] ELSE None]
                    \o [j \in 1..Len(rothers) |-> right.rows[i][rothers[j]]]]
    IN  [cols |-> left.cols \o [j \in 1..Len(rothers) |-> right.cols[rothers[j]]],
         rows |-> SortRowsBy(lonely \o ronly, lk)]

\* a left join: the rows of the right table that no left row matches are left out
merge_left(left, right, key) ==
    LET lk == IndexOf(left.cols, key)
        rk == IndexOf(right.cols, key)
        rothers == SelectSeq([i \in 1..Len(right.cols) |-> i], LAMBDA i : i # rk)
        Match(k) == {i \in 1..Len(right.rows) : right.rows[i][rk] = k}
    IN  [cols |-> left.cols \o [j \in 1..Len(rothers) |-> right.cols[rothers[j]]],
         rows |-> [i \in 1..Len(left.rows) |->
                     LET mt == Match(left.rows[i][lk])
                     IN  left.rows[i] \o
                         [j \in 1..Len(rothers) |->
                            IF mt = {} THEN None
                            ELSE right.rows[CHOOSE x \in mt : TRUE][rothers[j]]]]]

\* prod_df.merge(pivot, on=key, how="outer"); the key occurs once in both tables
\* and the keys of the pivot are distinct and not NaN
merge_outer(left, right, key) ==
    LET lk == IndexOf(left.cols, key)
        rk == IndexOf(right.cols, key)
        rothers == SelectSeq([i \in 1..Len(right.cols) |-> i], LAMBDA i : i # rk)
        overlap == (Range(left.cols) \cap Range(right.cols)) \ {key}
        lcols == [i \in 1..Len(left.cols) |->
                    IF left.cols[i] \in overlap THEN left.cols[i] \o suffix_x ELSE left.cols[i]]
        rcols == [j \in 1..Len(rothers) |->
                    IF right.cols[rothers[j]] \in overlap
                    THEN right.cols[rothers[j]] \o suffix_y ELSE right.cols[rothers[j]]]
        RightCells(rr) == [j \in 1..Len(rothers) |-> rr[rothers[j]]]
        NoRight == [j \in 1..Len(rothers) |-> None]
        Match(k) == {i \in 1..Len(right.rows) : right.rows[i][rk] = k}
        leftjoined == [i \in 1..Len(left.rows) |->
                         LET mt == Match(left.rows[i][lk])
                         IN  left.rows[i] \o
                             (IF mt = {} THEN NoRight
                              ELSE RightCells(right.rows[CHOOSE x \in mt : TRUE]))]
        leftkeys == {left.rows[i][lk] : i \in 1..Len(left.rows)}
        rightonly == SelectSeq(right.rows, LAMBDA rr : rr[rk] \notin leftkeys)
        rightjoined == [i \in 1..Len(rightonly) |->
                          [c \in 1..Len(left.cols) |-> IF c = lk THEN rightonly[i][rk] ELSE None]
                          \o RightCells(rightonly[i])]
    IN  [cols |-> lcols \o rcols,
         rows |-> SortRowsBy(leftjoined \o rightjoined, lk)]

(***************************************************************************)
(* Union of the per-sheet tables and the Types table.                      *)
(***************************************************************************)
RECURSIVE UnionLabels(_)
UnionLabels(dfs) ==
    IF dfs = <<>> THEN <<>>
    ELSE Unique(UnionLabels(SubSeq(dfs, 1, Len(dfs) - 1)) \o dfs[Len(dfs)].cols)

RECURSIVE StackRows(_, _)
StackRows(dfs, labels) ==
    IF dfs = <<>> THEN <<>>
    ELSE LET df == Head(dfs)
         IN  [r \in 1..Len(df.rows) |->
                [c \in 1..Len(labels) |->
                   IF IndexOf(df.cols, labels[c]) = 0 THEN None
                   ELSE df.rows[r][IndexOf(df.cols, labels[c])]]]
             \o StackRows(Tail(dfs), labels)

RECURSIVE ConcatRows(_)
ConcatRows(dfs) == IF dfs = <<>> THEN <<>> ELSE Head(dfs).rows \o ConcatRows(Tail(dfs))

\* pd.concat(final_dfs, ignore_index=True) raises when the column lists differ and
\* one of them holds a label twice (reindexing needs unique labels)
ConcatRaises(dfs) ==
    /\ \E i \in 1..Len(dfs) : dfs[i].cols # dfs[1].cols
    /\ \E i \in 1..Len(dfs) : HasDuplicates(dfs[i].cols)

\* a concatenation that keeps the first table only
concat_first(dfs) == dfs[1]

\* pd.concat(final_dfs, ignore_index=True): the rows stacked over the union of the
\* labels in first-seen order, a cell of a label a table lacks being NaN
concat(dfs) ==
    IF \A i \in 1..Len(dfs) : dfs[i].cols = dfs[1].cols
    THEN [cols |-> dfs[1].cols, rows |-> ConcatRows(dfs)]
    ELSE [cols |-> UnionLabels(dfs), rows |-> StackRows(dfs, UnionLabels(dfs))]

\* for col in ordered_columns: if col not in final_df.columns: final_df[col] = None
RECURSIVE AddMissing(_, _)
AddMissing(df, labels) ==
    IF labels = <<>> THEN df
    ELSE IF Head(labels) \in Range(df.cols) THEN AddMissing(df, Tail(labels))
    ELSE AddMissing([cols |-> Append(df.cols, Head(labels)),
                     rows |-> [r \in 1..Len(df.rows) |-> Append(df.rows[r], None)]],
                    Tail(labels))

\* the positions final_df[ordered_columns] selects: for each label in turn every
\* column that carries it
RECURSIVE SelectPositions(_, _)
SelectPositions(cols, labels) ==
    IF labels = <<>> THEN <<>>
    ELSE Positions(cols, Head(labels)) \o SelectPositions(cols, Tail(labels))

\* final_df[ordered_columns]
SelectColumns(df, labels) ==
    LET pos == SelectPositions(df.cols, labels)
    IN  [cols |-> [i \in 1..Len(pos) |-> df.cols[pos[i]]],
         rows |-> [r \in 1..Len(df.rows) |-> [i \in 1..Len(pos) |-> df.rows[r][pos[i]]]]]

\* a table whose null cells are left as they are
LeaveNull(df) == df

\* final_df.where(pd.notnull(final_df), "")
FillNull(df) ==
    [cols |-> df.cols,
     rows |-> [r \in 1..Len(df.rows) |->
                 [c \in 1..Len(df.rows[r]) |->
                    IF df.rows[r][c] = None THEN <<>> ELSE df.rows[r][c]]]]

Column1 == <<"C","o","l","u","m","n","1">>
Column2 == <<"C","o","l","u","m","n","2">>
mandatory == <<"m","a","n","d","a","t","o","r","y">>

\* the Types table: the columns Column1, Column2 and ordered_columns; row 0 the
\* names, row 1 "mandatory", row 2 the inferred types; Column1 and Column2 are
\* never assigned and stay NaN
build_types(ordered_columns) ==
    [cols |-> <<Column1, Column2>> \o ordered_columns,
     rows |-> IF ordered_columns = <<>> THEN <<>>
              ELSE << <<None, None>> \o ordered_columns,
                      <<None, None>> \o [i \in 1..Len(ordered_columns) |-> mandatory],
                      <<None, None>> \o [i \in 1..Len(ordered_columns) |->
                                           infer_column_type(ordered_columns[i])] >>]

(***************************************************************************)
(* One iteration of the sheet loop of merge_sizechart_productdetails.      *)
(***************************************************************************)
\* size_df.columns[:5]
MaxListed == 5

\* a listing of every column name, however many there are
columns_list_uncut(cols) == Join(<<",", " ">>, cols)

\* ", ".join(size_df.columns[:5]), followed by ", ..." when there are more
columns_list(cols) ==
    Join(<<",", " ">>, SubSeq(cols, 1, IF Len(cols) < MaxListed THEN Len(cols) ELSE MaxListed))
    \o (IF Len(cols) > MaxListed THEN <<",", " ", ".", ".", ".">> ELSE <<>>)

\* pd.DataFrame({label: values})
OneColumn(label, values) == [cols |-> <<label>>, rows |-> [i \in 1..Len(values) |-> <<values[i]>>]]

\* prod_df[label] = prod_df.iloc[:, 0]
WithFirstColumnAs(df, label) ==
    IF label \in Range(df.cols)
    THEN [cols |-> df.cols,
          rows |-> [r \in 1..Len(df.rows) |->
                      [c \in 1..Len(df.cols) |->
                         IF df.cols[c] = label THEN df.rows[r][1] ELSE df.rows[r][c]]]]
    ELSE [cols |-> Append(df.cols, label),
          rows |-> [r \in 1..Len(df.rows) |-> Append(df.rows[r], df.rows[r][1])]]

\* fallbacks that build the column from the identifier of every size row,
\* repeated ones included
ProductTableOfEveryRow(size_df, prod_df, style_size) ==
    LET ids == ColumnOf(size_df, style_size)
        df1 == IF empty(prod_df) THEN OneColumn(style_size, ids) ELSE prod_df
        found == IF empty(df1) THEN style_size ELSE find_style_column(df1.cols)[1]
    IN  IF found # None THEN [df |-> df1, style_prod |-> found]
        ELSE [df |-> IF ~empty(df1) THEN WithFirstColumnAs(df1, style_size) ELSE df1,
              style_prod |-> style_size]

\* the product table and its identifier column once the fallbacks have run
\* (the two "if prod_df.empty" blocks and the "if style_prod is None" block)
ProductTable(size_df, prod_df, style_size) ==
    LET ids == ColumnOf(size_df, style_size)
        df1 == IF empty(prod_df) THEN OneColumn(style_size, Unique(ids)) ELSE prod_df
        df2 == IF empty(df1)
               THEN OneColumn(style_size, Unique(SelectSeq(ids, LAMBDA v : v # None)))
               ELSE df1
        found == IF empty(df1) THEN style_size ELSE find_style_column(df1.cols)[1]
    IN  IF found # None THEN [df |-> df2, style_prod |-> found]
        ELSE [df |-> IF ~empty(df2) THEN WithFirstColumnAs(df2, style_size) ELSE df2,
              style_prod |-> style_size]

\* for col in pivot.columns: if col == style_prod: continue; register col
RegisterPivot(reg, pivot, style_prod) ==
    RegisterAll(reg, SelectSeq(pivot.cols, LAMBDA c : c # style_prod))

\* prod_df.merge(pivot, on=style_prod, how="outer") raises KeyError when the
\* product table has no column of that label and ValueError when it has two
MergeRaises(prod_df, style_prod) == Len(Positions(prod_df.cols, style_prod)) # 1

\* a pass that registers the columns of a sheet without identifier column
NoIdentifierRegistering(size_df, reg) ==
    [kind |-> "none", reg |-> RegisterAll(reg, size_df.cols), df |-> EmptyDataFrame]

\* if style_size is None: the pass ends (return or continue) before anything is
\* registered or collected
NoIdentifier(size_df, reg) == [kind |-> "none", reg |-> reg, df |-> EmptyDataFrame]

\* one pass of the loop body: [kind, reg, df]; kind is "none" (no identifier
\* column), "raise" (the merge raises and leaves the loop) or "append"
sheet_step(size_df, prod_df0, reg) ==
    LET style_size == find_style_column(size_df.cols)[1]
    IN  IF style_size = None
        THEN NoIdentifier(size_df, reg)
        ELSE
        LET pt == ProductTable(size_df, prod_df0, style_size)
            style_prod == pt.style_prod
            reg1 == RegisterAll(reg, pt.df.cols)
            prod_df == IF ~empty(pt.df) THEN RenameCanonical(pt.df, reg1.canonical_cols) ELSE pt.df
            brand_col == find_brand_size_column(size_df.cols)
        IN  IF brand_col = None
            THEN [kind |-> "append", reg |-> reg1, df |-> prod_df]
            ELSE
            LET pivot == RenameLabel(pivot_aggregated(size_df, style_size,
                                                      SizeCols(size_df, brand_col)),
                                     style_size, style_prod)
            IN  IF MergeRaises(prod_df, style_prod)
                THEN [kind |-> "raise", reg |-> reg1, df |-> prod_df]
                ELSE [kind |-> "append",
                      reg |-> RegisterPivot(reg1, pivot, style_prod),
                      df |-> merge_outer(prod_df, pivot, style_prod)]

(***************************************************************************)
(* The run of merge_sizechart_productdetails as a state machine.           *)
(***************************************************************************)
VARIABLES
    size_xl,          \* the size-chart workbook: a sequence of sheets [name, cols, rows]
    prod_xl,          \* the product-details workbook
    exclude_arg,      \* the exclude_sheets argument: [given, names]
    exists,           \* whether each input path names a file: [size, prod]
    write_ok,         \* whether the output path can be opened for writing
    to_excel_ok,      \* whether final_df.to_excel completes (it raises ValueError
                      \* for a table that has more rows than a worksheet)
    pc,               \* "start", "select", "loop", "types", "write", "done"
    size_sheets,      \* the sheets left after the exclusions
    sheet_i,          \* position of the loop in size_sheets
    canonical_cols,   \* normalized key -> display name
    ordered_columns,  \* the display names in registration order
    final_dfs,        \* the per-sheet tables appended so far
    any_valid_data,
    parsed,           \* the sheets parsed so far: <<workbook, sheet name>>
    final_df,         \* the Values table
    types_df,         \* the Types table
    output_file,      \* the workbook at output_path: a sequence of [name, df]
    result,           \* the ImportResult returned
    fn,               \* a helper called on its own: its name ("" when none is)
    fn_in,            \* its argument
    fn_out,           \* its result
    fn_pc             \* "idle", "call" or "return"

vars == <<size_xl, prod_xl, exclude_arg, exists, write_ok, to_excel_ok, pc, size_sheets, sheet_i, canonical_cols,
          ordered_columns, final_dfs, any_valid_data, parsed, final_df, types_df,
          output_file, result, fn, fn_in, fn_out, fn_pc>>

\* what no step of a run changes: its inputs, and the helper call of the other
\* specification
inputs == <<size_xl, prod_xl, exclude_arg, exists, write_ok, to_excel_ok, fn, fn_in, fn_out, fn_pc>>

\* the variables of a run
run == <<size_xl, prod_xl, exclude_arg, exists, write_ok, to_excel_ok, pc, size_sheets, sheet_i, canonical_cols,
         ordered_columns, final_dfs, any_valid_data, parsed, final_df, types_df,
         output_file, result>>

OutputPath == <<"o","u","t",".","x","l","s","x">>

NoFile == <<>>

\* ImportResult; error_message is [template, sheet, detail], the text of the
\* message being the template with its two fields filled in
NoMessage == [template |-> "None", sheet |-> "", detail |-> <<>>]

Failure(template, sheet, detail) ==
    [success |-> FALSE, output_path |-> None, rows_processed |-> 0, columns_count |-> 0,
     sheets_processed |-> 0,
     error_message |-> [template |-> template, sheet |-> sheet, detail |-> detail]]

Success(rows, columns, sheets) ==
    [success |-> TRUE, output_path |-> OutputPath, rows_processed |-> rows,
     columns_count |-> columns, sheets_processed |-> sheets, error_message |-> NoMessage]

NotReturned == [success |-> FALSE, output_path |-> None, rows_processed |-> 0,
                columns_count |-> 0, sheets_processed |-> 0, error_message |-> NoMessage]

\* validate_excel_file: the message it raises, or "" when the workbook passes
validate_excel_file(xl) ==
    IF Len(xl) = 0 THEN "Excel file has no sheets"
    ELSE LET df == parse(xl[1])
         IN  IF empty(df) /\ Len(xl) = 1 THEN "First sheet is empty"
             ELSE IF Len(df.cols) = 0 THEN "Sheet has no columns"
             ELSE ""

\* validate_excel_file on a path: pd.ExcelFile raises for a path that names no
\* file, and the last handler of validate_excel_file turns that into an
\* ImportValidationError
validate_path(present, xl) ==
    IF ~present THEN "Error reading file: {e}" ELSE validate_excel_file(xl)

\* an exception that leaves the function: no ImportResult is returned
Propagated(template, e) == NotReturned

\* the except clauses of merge_sizechart_productdetails: the exception becomes
\* an ImportResult whose message is the clause's text with str(e) filled in
Caught(template, e) == Failure(template, "", <<e>>)

\* an exclusion list that is the default whatever the caller passes
exclude_default == <<"masterdata">>

\* exclude_sheets = exclude_sheets or ["masterdata"]
exclude_sheets ==
    IF exclude_arg.given /\ exclude_arg.names # <<>> THEN exclude_arg.names ELSE <<"masterdata">>

Return(r) == pc' = "done" /\ result' = r

\* lines 157-159: both workbooks are validated, the size chart first
Validate ==
    /\ pc = "start"
    /\ LET es == validate_path(exists.size, size_xl)
           ep == validate_path(exists.prod, prod_xl)
       IN  /\ parsed' = parsed \cup (IF exists.size /\ Len(size_xl) > 0
                                     THEN {<<"size", size_xl[1].name>>} ELSE {})
                               \cup (IF es = "" /\ exists.prod /\ Len(prod_xl) > 0
                                     THEN {<<"prod", prod_xl[1].name>>} ELSE {})
           /\ IF es # "" THEN Return(Caught("Size chart file: {detail}", es))
              ELSE IF ep # "" THEN Return(Caught("Product details file: {detail}", ep))
              ELSE pc' = "select" /\ UNCHANGED result
    /\ UNCHANGED <<inputs, size_sheets, sheet_i, canonical_cols, ordered_columns, final_dfs,
                   any_valid_data, final_df, types_df, output_file>>

\* lines 161-175: the sheets that are not excluded
SelectSheets ==
    /\ pc = "select"
    /\ LET kept == SelectSeq(sheet_names(size_xl), LAMBDA n : n \notin Range(exclude_sheets))
       IN  /\ size_sheets' = kept
           /\ IF kept = <<>>
              THEN Return(Failure("No valid sheets found in size chart after exclusions",
                                  "", <<>>))
              ELSE pc' = "loop" /\ UNCHANGED result
    /\ UNCHANGED <<inputs, sheet_i, canonical_cols, ordered_columns, final_dfs,
                   any_valid_data, parsed, final_df, types_df, output_file>>

\* lines 181-270: one iteration of "for sheet in size_sheets"
ProcessSheet ==
    /\ pc = "loop"
    /\ sheet_i <= Len(size_sheets)
    /\ LET sheet == size_sheets[sheet_i]
           in_prod == sheet \in Range(sheet_names(prod_xl))
           size_df == parse(SheetNamed(size_xl, sheet))
           prod_df == IF in_prod THEN parse(SheetNamed(prod_xl, sheet)) ELSE EmptyDataFrame
           step == sheet_step(size_df, prod_df,
                              [canonical_cols |-> canonical_cols,
                               ordered_columns |-> ordered_columns])
       IN  /\ parsed' = parsed \cup {<<"size", sheet>>}
                               \cup (IF in_prod THEN {<<"prod", sheet>>} ELSE {})
           /\ canonical_cols' = step.reg.canonical_cols
           /\ ordered_columns' = step.reg.ordered_columns
           /\ any_valid_data' = (any_valid_data \/ step.kind # "none")
           /\ final_dfs' = IF step.kind = "append" THEN Append(final_dfs, step.df) ELSE final_dfs
           /\ IF step.kind = "none" /\ sheet = size_sheets[1]
              THEN /\ Return(Failure("Could not find style ID column in '{sheet}'. Expected column like 'style_id', 'SKU', or 'styleId'. Found: [{detail}]. Rename your identifier column to match one of these patterns.",
                                     sheet, columns_list(size_df.cols)))
                   /\ UNCHANGED sheet_i
              ELSE IF step.kind = "raise"
              THEN /\ Return(Caught("Error processing files: {detail}", "merge"))
                   /\ UNCHANGED sheet_i
              ELSE /\ sheet_i' = sheet_i + 1
                   /\ UNCHANGED <<pc, result>>
    /\ UNCHANGED <<inputs, size_sheets, final_df, types_df, output_file>>

\* lines 272-292: the union of the per-sheet tables
Assemble ==
    /\ pc = "loop"
    /\ sheet_i > Len(size_sheets)
    /\ IF ~any_valid_data
       THEN /\ Return(Failure("No valid data found in any sheet. Check that files contain style ID columns.", "", <<>>))
            /\ UNCHANGED final_df
       ELSE IF final_dfs = <<>>
       THEN /\ Return(Caught("Error processing files: {detail}", "concat"))
            /\ UNCHANGED final_df
       ELSE IF ConcatRaises(final_dfs)
       THEN /\ Return(Caught("Error processing files: {detail}", "concat"))
            /\ UNCHANGED final_df
       ELSE IF empty(concat(final_dfs))
       THEN /\ Return(Failure("No data produced after merging. Check input file formats.",
                              "", <<>>))
            /\ UNCHANGED final_df
       ELSE /\ final_df' = FillNull(SelectColumns(AddMissing(concat(final_dfs), ordered_columns),
                                                  ordered_columns))
            /\ pc' = "types"
            /\ UNCHANGED result
    /\ UNCHANGED <<inputs, size_sheets, sheet_i, canonical_cols, ordered_columns, final_dfs,
                   any_valid_data, parsed, types_df, output_file>>

\* lines 294-303: the Types table
BuildTypes ==
    /\ pc = "types"
    /\ types_df' = build_types(ordered_columns)
    /\ pc' = "write"
    /\ UNCHANGED <<inputs, size_sheets, sheet_i, canonical_cols, ordered_columns, final_dfs,
                   any_valid_data, parsed, final_df, output_file, result>>

\* lines 305-316: the workbook is written and the result returned.  Opening a
\* path that cannot be written raises before anything is stored.  When
\* final_df.to_excel raises, the with-block is left through ExcelWriter.__exit__,
\* which closes the writer and so saves the workbook as it stands, with the Types
\* sheet only.  The last handler turns either exception into a Failure.
Write ==
    /\ pc = "write"
    /\ IF ~write_ok
       THEN /\ UNCHANGED output_file
            /\ Return(Caught("Error processing files: {detail}", "write"))
       ELSE IF ~to_excel_ok
       THEN /\ output_file' = << [name |-> "Types", df |-> types_df] >>
            /\ Return(Caught("Error processing files: {detail}", "to_excel"))
       ELSE /\ output_file' = << [name |-> "Types", df |-> types_df],
                                 [name |-> "Values", df |-> final_df] >>
            /\ Return(Success(Len(final_df.rows), Len(final_df.cols), Len(size_sheets)))
    /\ UNCHANGED <<inputs, size_sheets, sheet_i, canonical_cols, ordered_columns, final_dfs,
                   any_valid_data, parsed, final_df, types_df>>

Next == Validate \/ SelectSheets \/ ProcessSheet \/ Assemble \/ BuildTypes \/ Write

(***************************************************************************)
(* The inputs of a run.                                                    *)
(***************************************************************************)
Table(cols, rows) == [cols |-> cols, rows |-> rows]

Sheet(name, table) == [name |-> name, cols |-> table.cols, rows |-> table.rows]

TabNames == <<"Tab1", "Tab2", "Tab3", "Tab4">>

\* the size-chart sheets of the schema family; in each the identifier column, if
\* there is one, stands left of the size block
SZ1 == Table(<<styleId, BrandSize, UKSize>>, << <<S1, M, six>>, <<S1, M, eight>> >>)
SZ2 == Table(<<STYLEID, uksize, EUSize>>, << <<S2, six, None>> >>)
SZ3 == Table(<<Style_ID, Color>>, << <<S1, Blue>> >>)
SZ4 == Table(<<Name, Color, Price, Notes, BrandSize, UKSize>>, << <<S1, Red, six, None, M, six>> >>)
SZ5 == Table(<<Name, BrandSize>>, << <<S1, M>> >>)
SZ6 == Table(<<styleId, BrandSize, UKSize>>, <<>>)
SZ7 == Table(<<>>, <<>>)
SZ8 == Table(<<styleId, EUSize>>, << <<S2, eight>> >>)
SZ9 == Table(<<styleId, uksize>>, << <<S2, eight>> >>)
SZ10 == Table(<<styleId, UKSize, BrandSize, EUSize>>, << <<S1, six, M, eight>> >>)
SZ11 == Table(<<STYLEID, Color>>, << <<S2, Blue>> >>)

\* the product-details sheets of the schema family
P1 == Table(<<styleId, Color>>, << <<S1, Red>> >>)
P2 == Table(<<styleId, Color, color>>, << <<S1, Red, Blue>>, <<S2, Blue, None>> >>)
P3 == Table(<<STYLEID, ProductImageURL, CdnPath>>, << <<S2, Blue, Red>> >>)
P4 == Table(<<Name, UKSize, ImgLink>>, << <<S1, six, Red>> >>)
P5 == Table(<<styleId, Color>>, <<>>)

Both(size, prod) == [size |-> size, prod |-> prod, in_prod |-> TRUE]

SizeOnly(size) == [size |-> size, prod |-> EmptyDataFrame, in_prod |-> FALSE]

\* a sheet of both workbooks, or of the size chart alone
SheetPairs ==
    { Both(SZ1, P1), SizeOnly(SZ1), Both(SZ1, P2), Both(SZ1, P4), Both(SZ1, P5),
      Both(SZ2, P3), SizeOnly(SZ2), Both(SZ3, P1), SizeOnly(SZ3), Both(SZ4, P1),
      SizeOnly(SZ5), Both(SZ6, P1), Both(SZ6, P5), SizeOnly(SZ7), SizeOnly(SZ8),
      Both(SZ8, P3), SizeOnly(SZ9), Both(SZ10, P1),
      SizeOnly(SZ11) }

DefaultArg == [given |-> FALSE, names |-> <<>>]

BothExist == [size |-> TRUE, prod |-> TRUE]

\* a workbook has at least one sheet: a product workbook that shares no sheet
\* with the size chart holds a sheet of its own
ExtraSheet == Sheet("Extra", P1)

\* the schema family: up to MaxSheets sheets that differ in their columns
SchemaInputs ==
    { [size_xl |-> [i \in 1..Len(ps) |-> Sheet(TabNames[i], ps[i].size)],
       prod_xl |-> LET present == SelectSeq([i \in 1..Len(ps) |-> i], LAMBDA i : ps[i].in_prod)
                   IN  IF present = <<>> THEN <<ExtraSheet>>
                       ELSE [j \in 1..Len(present) |->
                               Sheet(TabNames[present[j]], ps[present[j]].prod)],
       exclude_arg |-> DefaultArg,
       exists |-> BothExist,
       write_ok |-> TRUE,
       to_excel_ok |-> TRUE] : ps \in SeqsUpTo(SheetPairs, MaxSheets) \ {<<>>} }

\* the rows of the data family
SizeRows == {<<id, M, uk>> : id \in {S1, S2, None}, uk \in {six, eight, None}}

\* the data family: one sheet whose rows are enumerated
DataInputs ==
    { [size_xl |-> << Sheet("Tab1", Table(<<styleId, BrandSize, UKSize>>, rows)) >>,
       prod_xl |-> prod,
       exclude_arg |-> DefaultArg,
       exists |-> BothExist,
       write_ok |-> TRUE,
       to_excel_ok |-> TRUE] :
         rows \in SeqsUpTo(SizeRows, MaxRows),
         prod \in { << Sheet("Tab1", Table(<<styleId, Color>>, << <<S1, Red>> >>)) >>,
                    << Sheet("Tab1", Table(<<styleId, Color>>,
                                           << <<S1, Red>>, <<S1, Blue>>, <<None, Red>> >>)) >>,
                    << Sheet("Other", Table(<<styleId, Color>>, << <<S1, Red>> >>)) >> } }

\* the exclusion family: sheet names, the exclude_sheets argument and the
\* writability of the output path vary
ExclusionInputs ==
    { [size_xl |-> [i \in 1..Len(names) |-> Sheet(names[i], size)],
       prod_xl |-> << Sheet("Tab1", Table(<<styleId, Color>>, << <<S1, Red>> >>)) >>,
       exclude_arg |-> arg,
       exists |-> BothExist,
       write_ok |-> w[1],
       to_excel_ok |-> w[2]] :
         size \in {Table(<<styleId, BrandSize, UKSize>>, << <<S1, M, six>> >>), SZ6},
         names \in {<<"Tab1">>, <<"masterdata">>, <<"Tab1", "masterdata">>,
                    <<"masterdata", "Tab1">>},
         arg \in {DefaultArg} \cup
                 [given : {TRUE}, names : {<<>>, <<"Tab1">>, <<"masterdata">>,
                                           <<"Tab1", "masterdata">>}],
         w \in {<<TRUE, TRUE>>, <<FALSE, TRUE>>, <<TRUE, FALSE>>} }

\* the missing-file family: one or both input paths name no file
MissingInputs ==
    { [size_xl |-> << Sheet("Tab1", SZ1) >>,
       prod_xl |-> << Sheet("Tab1", P1) >>,
       exclude_arg |-> DefaultArg,
       exists |-> e,
       write_ok |-> TRUE,
       to_excel_ok |-> TRUE] : e \in [size : BOOLEAN, prod : BOOLEAN] \ {BothExist} }

Inputs == SchemaInputs \cup DataInputs \cup ExclusionInputs \cup MissingInputs

Init ==
    /\ \E in \in Inputs :
          /\ size_xl = in.size_xl
          /\ prod_xl = in.prod_xl
          /\ exclude_arg = in.exclude_arg
          /\ exists = in.exists
          /\ write_ok = in.write_ok
          /\ to_excel_ok = in.to_excel_ok
    /\ pc = "start"
    /\ size_sheets = <<>>
    /\ sheet_i = 1
    /\ canonical_cols = <<>>
    /\ ordered_columns = <<>>
    /\ final_dfs = <<>>
    /\ any_valid_data = FALSE
    /\ parsed = {}
    /\ final_df = EmptyDataFrame
    /\ types_df = EmptyDataFrame
    /\ output_file = NoFile
    /\ result = NotReturned
    /\ fn = ""
    /\ fn_in = <<>>
    /\ fn_out = <<>>
    /\ fn_pc = "idle"

Spec == Init /\ [][Next]_vars

(***************************************************************************)
(* The helpers called on their own, on arguments drawn from bounded sets.  *)
(***************************************************************************)
\* column names for find_style_column; a parsed header holds no name twice
(***************************************************************************)
(* export_formatter.py: format_excel_file.  pd.read_excel reads the first   *)
(* sheet of a workbook and makes repeated header names distinct, so the     *)
(* column labels of a table it returns are distinct.                        *)
(***************************************************************************)
\* ExportResult
ExportFailure(message) ==
    [success |-> FALSE, rows_processed |-> 0, columns_in_input |-> 0, columns_in_output |-> 0,
     columns_added |-> 0, error_message |-> message, written |-> EmptyDataFrame]

\* export_formatter.validate_excel_file: the message it raises, "" when it passes
export_validate(df) ==
    IF empty(df) THEN "Excel file contains no data"
    ELSE IF Len(df.cols) = 0 THEN "Excel file has no columns"
    ELSE ""

\* an output column list that takes the input-only columns whatever the flag
output_columns_with_extras(target_columns, input_columns, preserve_unknown_columns) ==
    target_columns \o SelectSeq(input_columns, LAMBDA col : col \notin Range(target_columns))

\* lines 117-123
output_columns(target_columns, input_columns, preserve_unknown_columns) ==
    IF preserve_unknown_columns
    THEN target_columns \o SelectSeq(input_columns, LAMBDA col : col \notin Range(target_columns))
    ELSE target_columns

\* df.reindex(columns=labels) on a table whose labels are distinct
reindex(df, labels) ==
    [cols |-> labels,
     rows |-> [r \in 1..Len(df.rows) |->
                 [c \in 1..Len(labels) |->
                    IF labels[c] \in Range(df.cols)
                    THEN df.rows[r][IndexOf(df.cols, labels[c])] ELSE None]]]

\* format_excel_file; "written" is the table stored at output_file
format_excel_file(df_input, df_template, preserve_unknown_columns) ==
    IF export_validate(df_input) # ""
    THEN ExportFailure("Input file: " \o export_validate(df_input))
    ELSE IF export_validate(df_template) # ""
    THEN ExportFailure("Template file: " \o export_validate(df_template))
    ELSE IF Len(df_template.cols) = 0
    THEN ExportFailure("Template file has no columns to match against")
    ELSE IF Len(df_input.cols) = 0
    THEN ExportFailure("Input file has no columns to process")
    ELSE
    LET out == output_columns(df_template.cols, df_input.cols, preserve_unknown_columns)
        df_output == reindex(df_input, out)
    IN  [success |-> TRUE,
         rows_processed |-> Len(df_output.rows),
         columns_in_input |-> Len(df_input.cols),
         columns_in_output |-> Len(out),
         columns_added |-> Len(SelectSeq(out, LAMBDA c : c \notin Range(df_input.cols))),
         error_message |-> "",
         written |-> df_output]

(***************************************************************************)
(* extract_missing_formatter.py: extract_rows_with_missing_ai_flag.  A     *)
(* workbook is a sequence of sheets; pd.read_excel without sheet_name      *)
(* reads the first one.                                                    *)
(***************************************************************************)
AIFlag == <<"A","I"," ","G","e","n","e","r","a","t","e","d"," ","I","m","a","g","e"," ","F","l","a","g">>

\* ExtractMissingResult; "written" is the workbook stored at result_file
ExtractResult(success, rows, types, missing, message, written) ==
    [success |-> success, rows_extracted |-> rows, types_rows |-> types,
     missing_count |-> missing, error_message |-> message, written |-> written]

\* output_df[flag_col].isna() | (output_df[flag_col].astype(str).str.strip() == "")
flag_missing(cell) == cell = None \/ strip(cell) = <<>>

\* set(missing_flag_df[style_id_col].dropna())
missing_style_ids(output_df) ==
    {output_df.rows[r][IndexOf(output_df.cols, styleId)] :
        r \in {q \in 1..Len(output_df.rows) :
                  flag_missing(output_df.rows[q][IndexOf(output_df.cols, AIFlag)])}} \ {None}

\* input_values_df[input_values_df[style_id_col].isin(missing_style_ids)]
filter_isin(df, label, keys) ==
    [cols |-> df.cols,
     rows |-> SelectSeq(df.rows, LAMBDA row : row[IndexOf(df.cols, label)] \in keys)]

\* extract_rows_with_missing_ai_flag with the default sheet and column names
extract_rows_with_missing_ai_flag(input_file, output_file_) ==
    IF Len(input_file) = 0 \/ export_validate(input_file[1]) # ""
    THEN ExtractResult(FALSE, 0, 0, 0, "Input file: validation", NoFile)
    ELSE IF Len(output_file_) = 0 \/ export_validate(output_file_[1]) # ""
    THEN ExtractResult(FALSE, 0, 0, 0, "Output file: validation", NoFile)
    ELSE
    LET output_df == [cols |-> output_file_[1].cols, rows |-> output_file_[1].rows]
    IN  IF AIFlag \notin Range(output_df.cols)
        THEN ExtractResult(FALSE, 0, 0, 0, "Output file must contain 'AI Generated Image Flag' column", NoFile)
        ELSE IF styleId \notin Range(output_df.cols)
        THEN ExtractResult(FALSE, 0, 0, 0, "Output file must contain 'styleId' column", NoFile)
        ELSE IF missing_style_ids(output_df) = {}
        THEN ExtractResult(TRUE, 0, 0, 0, "", NoFile)
        ELSE IF "Values" \notin Range(sheet_names(input_file))
        THEN ExtractResult(FALSE, 0, 0, 0, "Input file must contain a 'Values' sheet", NoFile)
        ELSE IF "Types" \notin Range(sheet_names(input_file))
        THEN ExtractResult(FALSE, 0, 0, 0, "Input file must contain a 'Types' sheet", NoFile)
        ELSE
        LET vs == SheetNamed(input_file, "Values")
            ts == SheetNamed(input_file, "Types")
            input_values_df == [cols |-> vs.cols, rows |-> vs.rows]
            input_types_df == [cols |-> ts.cols, rows |-> ts.rows]
        IN  IF styleId \notin Range(input_values_df.cols)
            THEN ExtractResult(FALSE, 0, 0, 0, "Values sheet must contain 'styleId' column", NoFile)
            ELSE LET filtered == filter_isin(input_values_df, styleId,
                                             missing_style_ids(output_df))
                 IN  ExtractResult(TRUE, Len(filtered.rows), Len(input_types_df.rows),
                                   Cardinality(missing_style_ids(output_df)), "",
                                   << [name |-> "Types", df |-> input_types_df],
                                      [name |-> "Values", df |-> filtered] >>)

\* extract_missing_processor.py, process_extract_missing: on success the file at
\* result_path is opened for reading; open() raises FileNotFoundError when no
\* file was written, and the last handler turns that into a failure
process_extract_missing(input_file, output_file_) ==
    LET r == extract_rows_with_missing_ai_flag(input_file, output_file_)
    IN  IF ~r.success
        THEN [success |-> FALSE, data |-> NoFile, rows_extracted |-> 0,
              error_message |-> r.error_message]
        ELSE IF r.written = NoFile
        THEN [success |-> FALSE, data |-> NoFile, rows_extracted |-> 0,
              error_message |-> "Processing error: {e}"]
        ELSE [success |-> TRUE, data |-> r.written, rows_extracted |-> r.rows_extracted,
              error_message |-> ""]

(***************************************************************************)
(* merge_sample_formatter.py: merge_sample_output.  A table indexed by the *)
(* key column is the list of its keys with the remaining columns.          *)
(***************************************************************************)
\* MergeSampleResult; "written" is the table stored at result_file
MergeResult(success, updated, total, message, written) ==
    [success |-> success, rows_updated |-> updated, total_rows |-> total,
     error_message |-> message, written |-> written]

\* s without its entry at position p
drop_at(s, p) == SubSeq(s, 1, p - 1) \o SubSeq(s, p + 1, Len(s))

\* df.set_index(label)
set_index(df, label) ==
    LET p == IndexOf(df.cols, label)
    IN  [index |-> [r \in 1..Len(df.rows) |-> df.rows[r][p]],
         cols |-> drop_at(df.cols, p),
         rows |-> [r \in 1..Len(df.rows) |-> drop_at(df.rows[r], p)]]

\* output_df_indexed.columns.intersection(sample_df_indexed.columns)
common_columns(output_indexed, sample_indexed) ==
    SelectSeq(output_indexed.cols, LAMBDA c : c \in Range(sample_indexed.cols))

\* an assignment that takes every column of the sample
loc_assign_all_columns(output_indexed, style_id, columns, sample_indexed) ==
    LET q == IndexOf(sample_indexed.index, style_id)
    IN  [output_indexed EXCEPT !.rows =
            [r \in 1..Len(output_indexed.rows) |->
                IF output_indexed.index[r] # style_id THEN output_indexed.rows[r]
                ELSE [c \in 1..Len(output_indexed.cols) |->
                        LET i == IndexOf(sample_indexed.cols, output_indexed.cols[c])
                        IN  IF i = 0 THEN None ELSE sample_indexed.rows[q][i]]]]

\* output_df_indexed.loc[style_id, common_columns] =
\*     sample_df_indexed.loc[style_id, common_columns]
loc_assign(output_indexed, style_id, columns, sample_indexed) ==
    LET q == IndexOf(sample_indexed.index, style_id)
    IN  [output_indexed EXCEPT !.rows =
            [r \in 1..Len(output_indexed.rows) |->
                IF output_indexed.index[r] # style_id THEN output_indexed.rows[r]
                ELSE [c \in 1..Len(output_indexed.cols) |->
                        IF output_indexed.cols[c] \in Range(columns)
                        THEN sample_indexed.rows[q][IndexOf(sample_indexed.cols,
                                                           output_indexed.cols[c])]
                        ELSE output_indexed.rows[r][c]]]]

\* the loop over sample_df_indexed.index, from position i on
RECURSIVE update_rows(_, _, _, _)
update_rows(output_indexed, sample_indexed, columns, i) ==
    IF i > Len(sample_indexed.index) THEN output_indexed
    ELSE update_rows(IF sample_indexed.index[i] \in Range(output_indexed.index)
                     THEN loc_assign(output_indexed, sample_indexed.index[i], columns,
                                     sample_indexed)
                     ELSE output_indexed,
                     sample_indexed, columns, i + 1)

\* output_df_indexed.reset_index(): the key column comes first
reset_index(indexed, label) ==
    [cols |-> <<label>> \o indexed.cols,
     rows |-> [r \in 1..Len(indexed.rows) |-> <<indexed.index[r]>> \o indexed.rows[r]]]

\* merge_sample_output with the default key column
merge_sample_output(output_df, sample_df) ==
    IF export_validate(output_df) # ""
    THEN MergeResult(FALSE, 0, 0, "Output file: validation", NoFile)
    ELSE IF export_validate(sample_df) # ""
    THEN MergeResult(FALSE, 0, 0, "Sample file: validation", NoFile)
    ELSE IF styleId \notin Range(output_df.cols)
    THEN MergeResult(FALSE, 0, 0, "Output file must contain 'styleId' column", NoFile)
    ELSE IF styleId \notin Range(sample_df.cols)
    THEN MergeResult(FALSE, 0, 0, "Sample file must contain 'styleId' column", NoFile)
    ELSE LET output_df_indexed == set_index(output_df, styleId)
             sample_df_indexed == set_index(sample_df, styleId)
             columns == common_columns(output_df_indexed, sample_df_indexed)
             styles_to_update == Range(sample_df_indexed.index)
                                     \cap Range(output_df_indexed.index)
             output_df_final == reset_index(update_rows(output_df_indexed, sample_df_indexed,
                                                        columns, 1), styleId)
         IN  MergeResult(TRUE, Cardinality(styles_to_update), Len(output_df_final.rows),
                         "", output_df_final)

ResolverNames == {styleId, Style_ID, StyleIdentifier, SKU, SkuCode, Color,
                  <<"s","t","y","l","e"," ","i","d">>, <<"M","y","S","t","y","l","e","-","I","D">>}

ColumnLists == {cs \in SeqsUpTo(ResolverNames, MaxCols) : ~HasDuplicates(cs)}

\* cells for aggregate_list: the reader has already turned the NA texts into NaN
NONE == <<"N","O","N","E">>
none == <<"n","o","n","e">>

AggValues == {None, six, eight, <<" ","6">>, <<"6"," ">>, <<" "," ">>, none, NONE,
              <<"n","a","n"," ">>, <<" ","N","a","N">>, <<"m">>, M}

SeriesInputs == SeqsUpTo(AggValues, MaxLen)

\* size-chart tables for the melt/groupby/pivot pipeline
PivotRows == {<<id, brand, uk>> : id \in {S1, S2, None}, brand \in {M, None},
                                   uk \in {six, eight, <<" ","6">>, none, NONE, None}}

PivotInputs == {Table(<<styleId, BrandSize, UKSize>>, rows) : rows \in SeqsUpTo(PivotRows, MaxRows)}

\* tables for format_excel_file: distinct column names, up to MaxRows rows
ExportColumns == {cs \in SeqsUpTo({styleId, Color, Price}, MaxCols) : ~HasDuplicates(cs)}

ExportTable(cols, n) ==
    Table(cols, [r \in 1..n |-> [c \in 1..Len(cols) |->
                                   IF r = 1 THEN cols[c] ELSE IF c = 1 THEN S2 ELSE None]])

ExportInputs ==
    { [input |-> ExportTable(ic, n), template |-> ExportTable(tc, m), preserve |-> p] :
         ic \in ExportColumns, tc \in ExportColumns, n \in 0..MaxRows, m \in 0..1,
         p \in BOOLEAN }

\* workbooks for extract_rows_with_missing_ai_flag
Blank == <<" ", " ">>
Yes == <<"Y">>

FlagRows == {<<id, flag>> : id \in {S1, S2, None}, flag \in {None, Blank, Yes}}

FlagTables ==
    {Table(<<styleId, AIFlag>>, rows) : rows \in SeqsUpTo(FlagRows, MaxRows)}
    \cup {Table(<<styleId, Color>>, << <<S1, Red>> >>), Table(<<SKU, AIFlag>>, << <<S1, None>> >>)}

TypesSheet == Sheet("Types", build_types(<<styleId, Color>>))

ValuesTables ==
    {Table(<<styleId, Color>>, << <<S1, Red>>, <<S2, Blue>>, <<S1, Blue>>, <<None, Red>> >>),
     Table(<<styleId, Color>>, << <<S2, Red>>, <<S2, Blue>> >>),
     Table(<<Color, styleId>>, << <<Red, S2>>, <<Blue, S1>> >>),
     Table(<<SKU, Color>>, << <<S1, Red>> >>)}

InputWorkbooks ==
    {<<TypesSheet, Sheet("Values", v)>> : v \in ValuesTables}
    \cup {<<Sheet("Values", v), TypesSheet>> : v \in ValuesTables}
    \cup {<<TypesSheet>>, <<Sheet("Values", Table(<<styleId, Color>>, << <<S1, Red>> >>))>>}

ExtractInputs ==
    {[input |-> wb, output |-> <<Sheet("Sheet1", t)>>] : wb \in InputWorkbooks, t \in FlagTables}

\* tables for merge_sample_output: the keys of a table are present and
\* distinct; the main table's Color cells are Red or empty, the sample's Blue
\* or empty
S3 == <<"S","3">>
Fit == <<"F","i","t">>
Slim == <<"S","l","i","m">>
Ten == <<"1","0">>

KeyedRows(cols, palette) ==
    {row \in [1..Len(cols) -> {S1, S2, S3, Ten, Slim} \cup palette] :
        \A c \in 1..Len(cols) :
            row[c] \in (IF cols[c] = styleId THEN {S1, S2, S3}
                        ELSE IF cols[c] = Color THEN palette
                        ELSE IF cols[c] = Price THEN {Ten}
                        ELSE {Slim})}

KeyedTables(cols, palette) ==
    {Table(cols, rows) : rows \in
        {rs \in SeqsUpTo(KeyedRows(cols, palette), MaxRows) :
            ~HasDuplicates([r \in 1..Len(rs) |-> rs[r][IndexOf(cols, styleId)]])}}

MainTables ==
    KeyedTables(<<styleId, Color, Price>>, {Red, None})
    \cup KeyedTables(<<Color, styleId>>, {Red, None})
    \cup {Table(<<SKU, Color>>, << <<S1, Red>> >>)}

SampleTables ==
    KeyedTables(<<styleId, Color, Fit>>, {Blue, None})
    \cup KeyedTables(<<styleId, Fit>>, {Blue})
    \cup {Table(<<SKU, Color>>, << <<S1, Blue>> >>)}

MergeSampleInputs == {[output |-> m, sample |-> t] : m \in MainTables, t \in SampleTables}

FnInit ==
    /\ size_xl = <<>>
    /\ prod_xl = <<>>
    /\ exclude_arg = DefaultArg
    /\ exists = BothExist
    /\ write_ok = TRUE
    /\ to_excel_ok = TRUE
    /\ pc = "done"
    /\ size_sheets = <<>>
    /\ sheet_i = 1
    /\ canonical_cols = <<>>
    /\ ordered_columns = <<>>
    /\ final_dfs = <<>>
    /\ any_valid_data = FALSE
    /\ parsed = {}
    /\ final_df = EmptyDataFrame
    /\ types_df = EmptyDataFrame
    /\ output_file = NoFile
    /\ result = NotReturned
    /\ fn_pc = "call"
    /\ fn_out = <<>>
    /\ \/ fn = "find_style_column" /\ fn_in \in ColumnLists
       \/ fn = "aggregate_list" /\ fn_in \in SeriesInputs
       \/ fn = "pivot" /\ fn_in \in PivotInputs
       \/ fn = "format_excel_file" /\ fn_in \in ExportInputs
       \/ fn = "extract_rows_with_missing_ai_flag" /\ fn_in \in ExtractInputs
       \/ fn = "process_extract_missing" /\ fn_in \in ExtractInputs
       \/ fn = "merge_sample_output" /\ fn_in \in MergeSampleInputs

CallFindStyleColumn ==
    /\ fn_pc = "call" /\ fn = "find_style_column"
    /\ fn_out' = find_style_column(fn_in)
    /\ fn_pc' = "return"
    /\ UNCHANGED <<run, fn, fn_in>>

CallAggregateList ==
    /\ fn_pc = "call" /\ fn = "aggregate_list"
    /\ fn_out' = aggregate_list(fn_in)
    /\ fn_pc' = "return"
    /\ UNCHANGED <<run, fn, fn_in>>

\* lines 237-257 on a table whose identifier column is the first
CallPivot ==
    /\ fn_pc = "call" /\ fn = "pivot"
    /\ fn_out' = pivot_aggregated(fn_in, find_style_column(fn_in.cols)[1],
                                  SizeCols(fn_in, find_brand_size_column(fn_in.cols)))
    /\ fn_pc' = "return"
    /\ UNCHANGED <<run, fn, fn_in>>

CallFormatExcelFile ==
    /\ fn_pc = "call" /\ fn = "format_excel_file"
    /\ fn_out' = format_excel_file(fn_in.input, fn_in.template, fn_in.preserve)
    /\ fn_pc' = "return"
    /\ UNCHANGED <<run, fn, fn_in>>

CallExtractMissing ==
    /\ fn_pc = "call" /\ fn = "extract_rows_with_missing_ai_flag"
    /\ fn_out' = extract_rows_with_missing_ai_flag(fn_in.input, fn_in.output)
    /\ fn_pc' = "return"
    /\ UNCHANGED <<run, fn, fn_in>>

CallMergeSample ==
    /\ fn_pc = "call" /\ fn = "merge_sample_output"
    /\ fn_out' = merge_sample_output(fn_in.output, fn_in.sample)
    /\ fn_pc' = "return"
    /\ UNCHANGED <<run, fn, fn_in>>

CallProcessExtractMissing ==
    /\ fn_pc = "call" /\ fn = "process_extract_missing"
    /\ fn_out' = process_extract_missing(fn_in.input, fn_in.output)
    /\ fn_pc' = "return"
    /\ UNCHANGED <<run, fn, fn_in>>

FnNext ==
    \/ CallFindStyleColumn \/ CallAggregateList \/ CallPivot \/ CallFormatExcelFile
    \/ CallExtractMissing \/ CallProcessExtractMissing \/ CallMergeSample

FnSpec == FnInit /\ [][FnNext]_vars

(***************************************************************************)
(* Properties.                                                             *)
(***************************************************************************)
IsPrefix(a, b) == Len(a) <= Len(b) /\ SubSeq(b, 1, Len(a)) = a

\* C1: the column registry is first-seen-wins.  Every step keeps the display name
\* of every registered key and the position of every entry of ordered_columns
\* (the list only grows at its end), and never leaves two entries of
\* ordered_columns with the same normalized key, nor a key without its entry.
C1_RegistryFirstSeenWins ==
    [][/\ IsPrefix(ordered_columns, ordered_columns')
       /\ \A k \in DOMAIN canonical_cols :
             k \in DOMAIN canonical_cols' /\ canonical_cols'[k] = canonical_cols[k]
       /\ \A i, j \in 1..Len(ordered_columns') :
             i # j => normalize_col(ordered_columns'[i]) # normalize_col(ordered_columns'[j])
       /\ \A i \in 1..Len(ordered_columns') :
             /\ normalize_col(ordered_columns'[i]) \in DOMAIN canonical_cols'
             /\ canonical_cols'[normalize_col(ordered_columns'[i])] = ordered_columns'[i]
       /\ Cardinality(DOMAIN canonical_cols') = Len(ordered_columns')]_vars

\* C1 witness: two sheets have been processed and the product table of the second
\* names a column by a case or whitespace variant of a registered name
C1_VariantSeen ==
    /\ pc = "loop" /\ sheet_i = 3
    /\ size_sheets[2] \in Range(sheet_names(prod_xl))
    /\ \E c \in Range(SheetNamed(prod_xl, size_sheets[2]).cols) :
          /\ c \notin Range(ordered_columns)
          /\ normalize_col(c) \in DOMAIN canonical_cols
          /\ IndexOf(ordered_columns, canonical_cols[normalize_col(c)]) <= 2

\* C2: when a column list holds a column that matches the exact rule
\* ^style[_\s\-]?id$ and a column that matches only the loose rule "styleid",
\* find_style_column returns a column that matches the exact rule.
C2_ExactRulePreferred ==
    (/\ fn = "find_style_column" /\ fn_pc = "return"
     /\ \E c \in Range(fn_in) : PatternMatches(1, c)
     /\ \E c \in Range(fn_in) :
           PatternMatches(3, c) /\ ~PatternMatches(1, c) /\ ~PatternMatches(2, c))
    => (fn_out[1] # None /\ PatternMatches(1, fn_out[1]))

\* what the claims C3 to C5 say of one group of cells: the values of a column in
\* the rows of one identifier, in row order
GroupValues(table, id, label) ==
    LET rows == SelectSeq(table.rows, LAMBDA r : r[1] = id)
    IN  [i \in 1..Len(rows) |-> rows[i][IndexOf(table.cols, label)]]

Identifiers(table) == {table.rows[r][1] : r \in 1..Len(table.rows)} \ {None}

RECURSIVE FirstOccurrences(_, _)
FirstOccurrences(s, seen) ==
    IF s = <<>> THEN <<>>
    ELSE IF Head(s) \in seen THEN FirstOccurrences(Tail(s), seen)
    ELSE <<Head(s)>> \o FirstOccurrences(Tail(s), seen \cup {Head(s)})

RECURSIVE CommaJoined(_)
CommaJoined(parts) ==
    IF parts = <<>> THEN <<>>
    ELSE Head(parts) \o (IF Tail(parts) = <<>> THEN <<>> ELSE <<",">> \o CommaJoined(Tail(parts)))

\* the trimmed values of a group that are not empty
TrimmedNonEmpty(values) ==
    LET present == SelectSeq(values, LAMBDA v : v # None /\ strip(v) # <<>>)
    IN  [i \in 1..Len(present) |-> strip(present[i])]

LiteralPlaceholders == { <<"n","a","n">>, <<"n","o","n","e">> }

\* the cell of the aggregated table for an identifier and a size column
AggregatedCell(agg, id, label) ==
    agg.rows[CHOOSE i \in 1..Len(agg.rows) : agg.rows[i][1] = id][IndexOf(agg.cols, label)]

OneRowPerIdentifier(table, agg) ==
    /\ Len(agg.rows) = Cardinality(Identifiers(table))
    /\ {agg.rows[i][1] : i \in 1..Len(agg.rows)} = Identifiers(table)

SizeBlock == {BrandSize, UKSize}

C4_PlaceholdersAnyCaseExcluded ==
    (fn = "aggregate_list" /\ fn_pc = "return")
    => fn_out = aggregate_list([i \in 1..Len(fn_in) |->
                                  IF fn_in[i] # None /\ lower(fn_in[i]) \in LiteralPlaceholders
                                  THEN <<>> ELSE fn_in[i]])

\* every value of the group is null, empty after trimming, or a placeholder:
\* "nan" or "none" in any letter case
AllAbsent(values) ==
    \A i \in 1..Len(values) :
       \/ values[i] = None
       \/ strip(values[i]) = <<>>
       \/ lower(strip(values[i])) \in LiteralPlaceholders

\* C5: when every value of an (identifier, size column) group is null, empty
\* after trimming or a placeholder, the aggregated cell is absent and not the
\* empty text, and the identifier has its row in the aggregated table.
C5_AbsentCellKeepsRow ==
    (fn = "pivot" /\ fn_pc = "return")
    => \A id \in Identifiers(fn_in), label \in SizeBlock :
          AllAbsent(GroupValues(fn_in, id, label))
          => /\ \E i \in 1..Len(fn_out.rows) : fn_out.rows[i][1] = id
             /\ label \in Range(fn_out.cols)
             /\ AggregatedCell(fn_out, id, label) = None
             /\ AggregatedCell(fn_out, id, label) # <<>>

\* the Values table has been assembled
Assembled == pc \in {"types", "write"} \/ (pc = "done" /\ final_df # EmptyDataFrame)

\* the rows of the Values table that come from the t-th per-sheet table
RECURSIVE RowsBefore(_)
RowsBefore(t) == IF t <= 1 THEN 0 ELSE RowsBefore(t - 1) + Len(final_dfs[t - 1].rows)

Segment(t) == SubSeq(final_df.rows, RowsBefore(t) + 1, RowsBefore(t) + Len(final_dfs[t].rows))

\* C6: after assembly every row of the Values table has the columns of the
\* canonical column list (as a set of names: every canonical column and no other
\* name), one cell per column of the header; no cell is null; a cell of a column
\* that the row's sheet did not supply is the empty text; and the tables
\* [Id, Color] and [Id, Size] give the columns [Id, Color, Size].
C6_SchemaUnion ==
    Assembled =>
       /\ Range(final_df.cols) = Range(ordered_columns)
       /\ Len(final_df.rows) = RowsBefore(Len(final_dfs) + 1)
       /\ \A r \in 1..Len(final_df.rows) :
             /\ Len(final_df.rows[r]) = Len(final_df.cols)
             /\ \A c \in 1..Len(final_df.cols) : final_df.rows[r][c] # None
       /\ \A t \in 1..Len(final_dfs) : \A r \in 1..Len(final_dfs[t].rows) :
             \A c \in 1..Len(final_df.cols) :
                final_df.cols[c] \notin Range(final_dfs[t].cols) => Segment(t)[r][c] = <<>>
       /\ ([t \in 1..Len(final_dfs) |-> final_dfs[t].cols]
              = << <<styleId, Color>>, <<styleId, EUSize>> >>
           => final_df.cols = <<styleId, Color, EUSize>>)

\* C6 witness: sheet A gave [styleId, Color], sheet B gave [styleId, EU Size], and
\* the Values table holds A's row with an empty EU Size and B's row with an
\* empty Color
C6_ColorAndSizeMerged ==
    /\ pc = "types"
    /\ [t \in 1..Len(final_dfs) |-> final_dfs[t].cols] = << <<styleId, Color>>, <<styleId, EUSize>> >>
    /\ final_df = [cols |-> <<styleId, Color, EUSize>>,
                   rows |-> << <<S1, Red, <<>> >>, <<S2, <<>>, eight>> >>]

\* C7: in every successful run the header of the Values sheet equals
\* ordered_columns (same names, same order, no name twice, no other column) and
\* the header of the Types sheet is Column1, Column2 and then that same list.
C7_HeadersEqualOrderedColumns ==
    (pc = "done" /\ result.success)
    => /\ Len(output_file) = 2
       /\ output_file[1].name = "Types" /\ output_file[2].name = "Values"
       /\ output_file[2].df.cols = ordered_columns
       /\ ~HasDuplicates(output_file[2].df.cols)
       /\ output_file[1].df.cols = <<Column1, Column2>> \o ordered_columns

\* the name holds the text somewhere, letter case aside
HoldsIgnoringCase(name, text) ==
    \E start \in 1..Len(name) :
       /\ start + Len(text) - 1 <= Len(name)
       /\ \A k \in 1..Len(text) : ToLower[name[start + k - 1]] = text[k]

IsImageName(name) ==
    \/ HoldsIgnoringCase(name, <<"i","m","a","g","e">>)
    \/ HoldsIgnoringCase(name, <<"i","m","g">>)
    \/ HoldsIgnoringCase(name, <<"u","r","l">>)
    \/ HoldsIgnoringCase(name, <<"c","d","n">>)

\* C8: the Types table has three data rows over the canonical columns: the
\* column's name, "mandatory", and "image" when the name holds "image", "img",
\* "url" or "cdn" in any letter case and "string" otherwise; the Column1 and
\* Column2 cells are blank in the three rows.
C8_TypesTable ==
    (pc = "write" \/ (pc = "done" /\ result.success))
    => /\ types_df.cols = <<Column1, Column2>> \o ordered_columns
       /\ Len(types_df.rows) = 3
       /\ \A k \in 1..3 :
             /\ Len(types_df.rows[k]) = Len(ordered_columns) + 2
             /\ types_df.rows[k][1] = None
             /\ types_df.rows[k][2] = None
       /\ \A i \in 1..Len(ordered_columns) :
             /\ types_df.rows[1][i + 2] = ordered_columns[i]
             /\ types_df.rows[2][i + 2] = <<"m","a","n","d","a","t","o","r","y">>
             /\ types_df.rows[3][i + 2] = IF IsImageName(ordered_columns[i])
                                          THEN <<"i","m","a","g","e">>
                                          ELSE <<"s","t","r","i","n","g">>

\* C8 witness: the Types table of [STYLEID, Product Image URL, Cdn Path, ...] is
\* built, with "string" under the first and "image" under the next two columns
C8_ImageAndString ==
    /\ pc = "write"
    /\ Len(ordered_columns) >= 3
    /\ SubSeq(ordered_columns, 1, 3) = <<STYLEID, ProductImageURL, CdnPath>>
    /\ SubSeq(types_df.rows[3], 3, 5)
          = << <<"s","t","r","i","n","g">>, <<"i","m","a","g","e">>, <<"i","m","a","g","e">> >>

\* a run that has returned success
Succeeded == pc = "done" /\ result.success

\* the cell of a Values row under a label
ValuesCell(row, label) == row[IndexOf(final_df.cols, label)]

\* the sheets of the size chart that have an identifier column, in workbook order:
\* in a successful run the t-th per-sheet table comes from the t-th of them
SheetsWithId ==
    SelectSeq(size_sheets,
              LAMBDA n : find_style_column(parse(SheetNamed(size_xl, n)).cols)[1] # None)

\* what the claim C9 says of the t-th per-sheet table when its sheet has product
\* rows with an identifier column and a size block: an identifier that a product
\* row and a size row share has one Values row per product row, and that row
\* carries the aggregated value of every size column that is registered under its
\* own name and is not a product column
JoinedOnIdentifier(t) ==
    LET n == SheetsWithId[t]
        size_df == parse(SheetNamed(size_xl, n))
        prod_df == parse(SheetNamed(prod_xl, n))
        sid == find_style_column(size_df.cols)[1]
        pid == find_style_column(prod_df.cols)[1]
        brand == find_brand_size_column(size_df.cols)
        agg == pivot_aggregated(size_df, sid, SizeCols(size_df, brand))
        pkeys == Range(ColumnOf(prod_df, pid))
        skeys == Range(ColumnOf(size_df, sid))
    IN  (~empty(prod_df) /\ pid # None /\ brand # None)
        => \A k \in (pkeys \cap skeys) \ {None} :
              LET joined == SelectSeq(Segment(t), LAMBDA row : ValuesCell(row, pid) = k)
              IN  /\ Len(joined) = Len(SelectSeq(ColumnOf(prod_df, pid), LAMBDA v : v = k))
                  /\ \A i \in 1..Len(joined) : \A L \in Range(SizeCols(size_df, brand)) :
                        (L \in Range(ordered_columns) /\ L \notin Range(prod_df.cols))
                        => ValuesCell(joined[i], L) =
                              (IF AggregatedCell(agg, k, L) = None THEN <<>>
                               ELSE AggregatedCell(agg, k, L))

\* C9: a product row and the aggregated size row of the same identifier are
\* joined into one Values row; the product row (styleId S1, Color Red) with the
\* size rows (S1, UK Size 6) and (S1, UK Size 8) gives exactly one Values row,
\* with styleId S1, Color Red and UK Size "6,8".
C9_OuterJoinOnIdentifier ==
    /\ Succeeded =>
          /\ Len(SheetsWithId) = Len(final_dfs)
          /\ \A t \in 1..Len(final_dfs) :
                SheetsWithId[t] \in Range(sheet_names(prod_xl)) => JoinedOnIdentifier(t)
    /\ (/\ pc = "done"
        /\ exists = BothExist /\ write_ok /\ to_excel_ok /\ ~exclude_arg.given
        /\ prod_xl = << Sheet("Tab1", Table(<<styleId, Color>>, << <<S1, Red>> >>)) >>
        /\ Len(size_xl) = 1 /\ size_xl[1].name = "Tab1"
        /\ size_xl[1].cols = <<styleId, BrandSize, UKSize>>
        /\ [r \in 1..Len(size_xl[1].rows) |-> <<size_xl[1].rows[r][1], size_xl[1].rows[r][3]>>]
              = << <<S1, six>>, <<S1, eight>> >>)
       => /\ result.success
          /\ Len(final_df.rows) = 1
          /\ ValuesCell(final_df.rows[1], styleId) = S1
          /\ ValuesCell(final_df.rows[1], Color) = Red
          /\ ValuesCell(final_df.rows[1], UKSize) = <<"6", ",", "8">>
          /\ output_file[2].df = final_df

\* C9 witness: the run on the product row (S1, Red) and the size rows (S1, 6) and
\* (S1, 8) has written a Values sheet whose only row is S1, Red, M, "6,8"
C9_RedSixEight ==
    /\ Succeeded
    /\ prod_xl = << Sheet("Tab1", Table(<<styleId, Color>>, << <<S1, Red>> >>)) >>
    /\ size_xl = << Sheet("Tab1", SZ1) >>
    /\ output_file[2].df = [cols |-> <<styleId, Color, BrandSize, UKSize>>,
                            rows |-> << <<S1, Red, M, <<"6", ",", "8">> >> >>]

\* the first sheet the loop takes has no identifier column and its iteration
\* has run
FirstSheetWithoutId ==
    /\ size_sheets # <<>>
    /\ find_style_column(parse(SheetNamed(size_xl, size_sheets[1])).cols)[1] = None
    /\ (pc = "done" \/ (pc = "loop" /\ sheet_i > 1))

\* the names as the message lists them: the first five, joined by ", ", and
\* ", ..." after them when there are more
RECURSIVE ListedNames(_, _)
ListedNames(names, n) ==
    IF names = <<>> THEN <<>>
    ELSE IF n = 0 THEN <<".", ".", ".">>
    ELSE Head(names) \o (IF Tail(names) = <<>> THEN <<>>
                         ELSE <<",", " ">> \o ListedNames(Tail(names), n - 1))

\* C10: when the first non-excluded sheet of the size chart has no identifier
\* column, the run fails at once: no later sheet is read, nothing is collected
\* or written, and the message names the sheet and lists its first five column
\* names, followed by ", ..." when it has more than five.
C10_FirstSheetWithoutIdAborts ==
    FirstSheetWithoutId
    => /\ pc = "done"
       /\ ~result.success
       /\ result.error_message.template = "Could not find style ID column in '{sheet}'. Expected column like 'style_id', 'SKU', or 'styleId'. Found: [{detail}]. Rename your identifier column to match one of these patterns."
       /\ result.error_message.sheet = size_sheets[1]
       /\ result.error_message.detail
             = ListedNames(SheetNamed(size_xl, size_sheets[1]).cols, 5)
       /\ sheet_i = 1
       /\ final_dfs = <<>> /\ ordered_columns = <<>>
       /\ output_file = NoFile
       /\ \A i \in 2..Len(size_sheets) : <<"size", size_sheets[i]>> \notin parsed
       /\ (\A i \in 2..Len(size_sheets) : size_sheets[i] # prod_xl[1].name)
          => \A i \in 2..Len(size_sheets) : <<"prod", size_sheets[i]>> \notin parsed

\* C10 witness: a run whose first sheet has six columns, none an identifier, and
\* a second sheet has stopped with the message that lists five names and ", ..."
C10_SixColumnsListed ==
    /\ pc = "done"
    /\ Len(size_sheets) = 2
    /\ SheetNamed(size_xl, size_sheets[1]).cols = <<Name, Color, Price, Notes, BrandSize, UKSize>>
    /\ result.error_message.detail
          = Name \o <<",", " ">> \o Color \o <<",", " ">> \o Price \o <<",", " ">> \o Notes
            \o <<",", " ">> \o BrandSize \o <<",", " ", ".", ".", ".">>

\* the sheet the loop is about to take has no identifier column
NextSheetWithoutId ==
    /\ pc = "loop" /\ sheet_i <= Len(size_sheets)
    /\ find_style_column(parse(SheetNamed(size_xl, size_sheets[sheet_i])).cols)[1] = None

\* C11: when a sheet other than the first processed sheet has no identifier
\* column, its iteration raises no error, leaves the column registry and the
\* collected tables as they are, and hands over to the next sheet.
C11_LaterSheetWithoutIdSkipped ==
    [][(NextSheetWithoutId /\ sheet_i > 1)
       => /\ pc' = "loop"
          /\ sheet_i' = sheet_i + 1
          /\ UNCHANGED <<canonical_cols, ordered_columns, final_dfs, result, output_file>>]_vars

\* C11 witness: a run of two sheets, the second without identifier column, has
\* ended in Success with the rows of the first sheet only
C11_SkippedThenSuccess ==
    /\ Succeeded
    /\ Len(size_sheets) = 2
    /\ find_style_column(parse(SheetNamed(size_xl, size_sheets[2])).cols)[1] = None
    /\ Len(SheetNamed(size_xl, size_sheets[2]).rows) > 0
    /\ Len(final_dfs) = 1
    /\ Len(output_file[2].df.rows) = Len(final_dfs[1].rows)

\* the exclusion set as the caller configures it: the list passed, and
\* ["masterdata"] when none is passed
ConfiguredExclusions == IF exclude_arg.given THEN exclude_arg.names ELSE <<"masterdata">>

\* the exclusion set removes every sheet of the size-chart workbook
AllExcluded ==
    /\ size_xl # <<>>
    /\ \A i \in 1..Len(size_xl) : size_xl[i].name \in Range(ConfiguredExclusions)

NoValidSheets == "No valid sheets found in size chart after exclusions"

\* C12 as stated: when the exclusion set removes every sheet of the size chart,
\* the run fails with the "no valid sheets" error and no table of either
\* workbook has been read.
C12_NoValidSheetsBeforeAnyRead ==
    (AllExcluded /\ pc = "done")
    => /\ ~result.success
       /\ result.error_message.template = NoValidSheets
       /\ parsed = {}

\* C12 amended: when the exclusion set removes every sheet of the size chart,
\* the run fails and writes nothing; when both workbooks pass validation the
\* error is "no valid sheets", reached after validation has read the first sheet
\* of each workbook and before the sheet loop reads any table; otherwise the
\* error is the validation error and no further table has been read.
C12_NoValidSheetsAfterValidation ==
    (AllExcluded /\ pc = "done")
    => /\ ~result.success
       /\ output_file = NoFile
       /\ final_dfs = <<>> /\ sheet_i = 1
       /\ IF validate_path(exists.size, size_xl) = "" /\ validate_path(exists.prod, prod_xl) = ""
          THEN /\ result.error_message.template = NoValidSheets
               /\ parsed = {<<"size", size_xl[1].name>>, <<"prod", prod_xl[1].name>>}
          ELSE /\ result.error_message.template
                     \in {"Size chart file: {detail}", "Product details file: {detail}"}
               /\ parsed \subseteq {<<"size", size_xl[1].name>>, <<"prod", prod_xl[1].name>>}

\* C12 witness: the only sheet of the size chart is "masterdata", no exclusion
\* list is passed, and the run has failed with "no valid sheets" after the first
\* sheet of each workbook was read
C12_OnlyMasterdata ==
    /\ pc = "done"
    /\ sheet_names(size_xl) = <<"masterdata">>
    /\ ~exclude_arg.given
    /\ result.error_message.template = NoValidSheets
    /\ parsed = {<<"size", "masterdata">>, <<"prod", "Tab1">>}

\* C13: the pipeline is all-or-nothing.  In every terminal state either the
\* result is Success and the output workbook holds exactly the sheets "Types" and
\* "Values", in that order, or the result is Failure and nothing has been written
\* to the output path; and the write step is reached only after every sheet has
\* been processed and the Values and Types tables are built.
C13_AllOrNothing ==
    /\ pc = "done"
       => \/ /\ result.success
             /\ output_file = << [name |-> "Types", df |-> types_df],
                                 [name |-> "Values", df |-> final_df] >>
          \/ /\ ~result.success
             /\ output_file = NoFile
    /\ pc = "write"
       => /\ sheet_i = Len(size_sheets) + 1
          /\ final_df # EmptyDataFrame
          /\ types_df = build_types(ordered_columns)
          /\ output_file = NoFile

\* the messages that are built from an exception: its text stands in {detail}
ExceptionMessages ==
    {"Size chart file: {detail}", "Product details file: {detail}",
     "Error processing files: {detail}"}

\* the messages of the failures the function detects itself
DetectedMessages ==
    {NoValidSheets,
     "Could not find style ID column in '{sheet}'. Expected column like 'style_id', 'SKU', or 'styleId'. Found: [{detail}]. Rename your identifier column to match one of these patterns.",
     "No valid data found in any sheet. Check that files contain style ID columns.",
     "No data produced after merging. Check input file formats."}

\* C14: merge_sizechart_productdetails never propagates an exception.  A run
\* that ends without Success has returned an ImportResult with success = False,
\* output_path unset and a non-empty error_message, which carries the text of
\* the underlying exception when the failure is a missing file, a validation
\* error or an unexpected error while merging or writing.
C14_EveryFailureIsAResult ==
    (pc = "done" /\ ~result.success)
    => /\ result.output_path = None
       /\ result.error_message # NoMessage
       /\ result.error_message.template \in ExceptionMessages \cup DetectedMessages
       /\ result.error_message.template \in ExceptionMessages
          => /\ Len(result.error_message.detail) = 1
             /\ result.error_message.detail[1] # ""
       /\ ~exists.size
          => result.error_message = [template |-> "Size chart file: {detail}", sheet |-> "",
                                     detail |-> <<"Error reading file: {e}">>]
       /\ (exists.size /\ validate_excel_file(size_xl) = "" /\ ~exists.prod)
          => result.error_message = [template |-> "Product details file: {detail}",
                                     sheet |-> "", detail |-> <<"Error reading file: {e}">>]
       /\ (final_df # EmptyDataFrame /\ ~write_ok)
          => result.error_message.template = "Error processing files: {detail}"

\* C14 witness: the merge of the second sheet has raised, and the run has
\* returned the Failure "Error processing files: ..." with nothing written
C14_MergeErrorReported ==
    /\ pc = "done"
    /\ sheet_i = 2
    /\ result.error_message = [template |-> "Error processing files: {detail}",
                               sheet |-> "", detail |-> <<"merge">>]
    /\ result.output_path = None
    /\ output_file = NoFile

\* the display name under which a column name is registered
DisplayName(label) == canonical_cols[normalize_col(label)]

\* the tables of the sheet behind the t-th per-sheet table, as the loop reads them
SizeTableOf(t) == parse(SheetNamed(size_xl, SheetsWithId[t]))

ProductTableOf(t) ==
    IF SheetsWithId[t] \in Range(sheet_names(prod_xl))
    THEN parse(SheetNamed(prod_xl, SheetsWithId[t])) ELSE EmptyDataFrame

\* the name of the identifier column the sheet's rows are joined on
JoinColumn(t) ==
    LET sid == find_style_column(SizeTableOf(t).cols)[1]
        pid == IF empty(ProductTableOf(t)) THEN None
               ELSE find_style_column(ProductTableOf(t).cols)[1]
    IN  IF pid = None THEN sid ELSE pid

\* no two columns of the two tables of the sheet share a normalized key, the
\* identifier columns aside
KeysDistinct(t) ==
    LET names == SelectSeq(ProductTableOf(t).cols \o SizeTableOf(t).cols,
                           LAMBDA c : normalize_col(c) # normalize_col(JoinColumn(t)))
    IN  \A i, j \in 1..Len(names) : i # j => normalize_col(names[i]) # normalize_col(names[j])

\* the name differs from the display name its key was registered under
IsVariant(label) ==
    normalize_col(label) \in DOMAIN canonical_cols /\ DisplayName(label) # label

\* C15: when a later sheet names a product column or a size-block column with a
\* spelling that differs only in case or whitespace from the registered name,
\* the sheet's values of that column stand in the Values sheet under the
\* first-seen display name, in the row of their identifier, and the Values
\* header has no second column for that spelling.
C15_VariantFoldedIntoFirstName ==
    Succeeded
    => \A t \in 1..Len(final_dfs) :
          KeysDistinct(t) =>
          LET size_df == SizeTableOf(t)
              prod_df == ProductTableOf(t)
              sid == find_style_column(size_df.cols)[1]
              brand == find_brand_size_column(size_df.cols)
              block == IF brand = None THEN {} ELSE Range(SizeCols(size_df, brand))
              agg == pivot_aggregated(size_df, sid, SizeCols(size_df, brand))
              Carries(k, label, v) ==
                 \E r \in 1..Len(Segment(t)) :
                    /\ ValuesCell(Segment(t)[r], DisplayName(JoinColumn(t))) = k
                    /\ ValuesCell(Segment(t)[r], DisplayName(label)) = v
          IN  /\ \A L \in block : IsVariant(L) =>
                    /\ L \notin Range(output_file[2].df.cols)
                    /\ \A k \in Identifiers(size_df) :
                          AggregatedCell(agg, k, L) # None
                          => Carries(k, L, AggregatedCell(agg, k, L))
              /\ \A L \in Range(prod_df.cols) : (IsVariant(L) /\ L # JoinColumn(t)) =>
                    /\ L \notin Range(output_file[2].df.cols)
                    /\ \A r \in 1..Len(prod_df.rows) :
                          LET v == prod_df.rows[r][IndexOf(prod_df.cols, L)]
                              k == prod_df.rows[r][IndexOf(prod_df.cols, JoinColumn(t))]
                          IN  (v # None /\ k # None) => Carries(k, L, v)

\* the names of a list followed by the given names whose normalized key the
\* list does not have yet, in the order given
RECURSIVE FirstSeen(_, _)
FirstSeen(list, names) ==
    IF names = <<>> THEN list
    ELSE IF \E i \in 1..Len(list) : normalize_col(list[i]) = normalize_col(Head(names))
    THEN FirstSeen(list, Tail(names))
    ELSE FirstSeen(Append(list, Head(names)), Tail(names))

\* the first-seen order over the first t sheets that have an identifier column:
\* per sheet the columns of the product table from left to right, then the
\* columns of the size block in the order of the size-chart sheet
RECURSIVE FirstSeenOrder(_)
FirstSeenOrder(t) ==
    IF t = 0 THEN <<>>
    ELSE LET size_df == SizeTableOf(t)
             sid == find_style_column(size_df.cols)[1]
             brand == find_brand_size_column(size_df.cols)
             product == ProductTable(size_df, ProductTableOf(t), sid).df.cols
             block == IF brand = None THEN <<>> ELSE SizeCols(size_df, brand)
         IN  FirstSeen(FirstSeen(FirstSeenOrder(t - 1), product), block)

\* a is b with some of its entries left out
RECURSIVE IsSubsequence(_, _)
IsSubsequence(a, b) ==
    IF a = <<>> THEN TRUE
    ELSE IF b = <<>> THEN FALSE
    ELSE IF Head(a) = Head(b) THEN IsSubsequence(Tail(a), Tail(b))
    ELSE IsSubsequence(a, Tail(b))

\* C16: the output column order is the first-seen order across the processed
\* sheets: sheets in workbook order, within a sheet the product-table columns
\* from left to right and then the size-block columns in the left-to-right
\* order of the size-chart sheet.  (The columns of the output stand in the order
\* they have in that list; a size block without any identifier adds no column.)
C16_FirstSeenColumnOrder ==
    Succeeded
    => /\ IsSubsequence(ordered_columns, FirstSeenOrder(Len(SheetsWithId)))
       /\ output_file[1].df.cols = <<Column1, Column2>> \o ordered_columns

\* C17: the table format_excel_file produces has the template columns in
\* template order, followed by the input-only columns in input order if and only
\* if preserve_unknown_columns is true; a template column the input lacks has
\* empty cells; the row count is the input's; columns_added is the number of
\* output columns absent from the input.
C17_TemplateColumnsThenExtras ==
    (fn = "format_excel_file" /\ fn_pc = "return" /\ fn_out.success)
    => LET input == fn_in.input
           template == fn_in.template
           out == fn_out.written
           extras == SelectSeq(input.cols, LAMBDA c : c \notin Range(template.cols))
       IN  /\ SubSeq(out.cols, 1, Len(template.cols)) = template.cols
           /\ (fn_in.preserve => out.cols = template.cols \o extras)
           /\ (~fn_in.preserve => out.cols = template.cols)
           /\ Len(out.rows) = Len(input.rows)
           /\ fn_out.rows_processed = Len(input.rows)
           /\ \A r \in 1..Len(out.rows) : \A c \in 1..Len(out.cols) :
                 out.rows[r][c] = IF out.cols[c] \in Range(input.cols)
                                  THEN input.rows[r][IndexOf(input.cols, out.cols[c])]
                                  ELSE None
           /\ fn_out.columns_added
                 = Cardinality({c \in 1..Len(out.cols) : out.cols[c] \notin Range(input.cols)})

\* C17 witness: an input [Color, styleId] formatted to the template
\* [styleId, Price] without preserving extras: Price is added empty, Color is gone
C17_AddedAndDropped ==
    /\ fn = "format_excel_file" /\ fn_pc = "return" /\ fn_out.success
    /\ ~fn_in.preserve
    /\ fn_in.input.cols = <<Color, styleId>>
    /\ fn_out.written.cols = <<styleId, Price>>
    /\ Len(fn_out.written.rows) = 2
    /\ fn_out.written.rows[1] = <<styleId, None>>
    /\ fn_out.columns_added = 1

\* a cell of nothing but white space
OnlySpaces(cell) == \A i \in 1..Len(cell) : cell[i] \in {" ", "\t", "\n"}

\* the keys of the output table whose flag cell is absent or empty after
\* trimming, rows with an absent key left out
KeysWithMissingFlag(table) ==
    {k \in {S1, S2} :
        \E r \in 1..Len(table.rows) :
            /\ table.rows[r][IndexOf(table.cols, styleId)] = k
            /\ LET flag == table.rows[r][IndexOf(table.cols, AIFlag)]
               IN  flag = None \/ OnlySpaces(flag)}

\* a call of extract_rows_with_missing_ai_flag on workbooks that have the
\* sheets and columns it needs
ExtractReturned ==
    /\ fn = "extract_rows_with_missing_ai_flag" /\ fn_pc = "return"
    /\ {"Values", "Types"} \subseteq Range(sheet_names(fn_in.input))
    /\ styleId \in Range(SheetNamed(fn_in.input, "Values").cols)
    /\ {styleId, AIFlag} \subseteq Range(fn_in.output[1].cols)
    /\ Len(fn_in.output[1].rows) > 0

\* the rows of the input Values sheet whose key is in keys, in their order
RowsWithKey(keys) ==
    LET v == SheetNamed(fn_in.input, "Values")
    IN  SelectSeq(v.rows, LAMBDA row : row[IndexOf(v.cols, styleId)] \in keys)

\* the result workbook holds the Types sheet as it was and the rows of the
\* Values sheet whose key is in keys
ResultHolds(keys) ==
    LET v == SheetNamed(fn_in.input, "Values")
        t == SheetNamed(fn_in.input, "Types")
    IN  /\ Len(fn_out.written) = 2
        /\ fn_out.written[1] = [name |-> "Types", df |-> [cols |-> t.cols, rows |-> t.rows]]
        /\ fn_out.written[2] = [name |-> "Values",
                                df |-> [cols |-> v.cols, rows |-> RowsWithKey(keys)]]

\* C18: extract_rows_with_missing_ai_flag selects exactly the keys of the output
\* table whose flag cell is absent or empty after trimming (rows with an absent
\* key are ignored); the result Values sheet contains exactly the rows of the
\* input Values sheet whose key is in that set, in their original order, and the
\* Types sheet is copied unchanged.
C18_SelectedRowsWritten ==
    ExtractReturned
    => /\ fn_out.success
       /\ fn_out.missing_count = Cardinality(KeysWithMissingFlag(fn_in.output[1]))
       /\ ResultHolds(KeysWithMissingFlag(fn_in.output[1]))

\* the same, for the calls in which at least one key is selected
C18_SelectedRowsWrittenWhenAny ==
    (ExtractReturned /\ KeysWithMissingFlag(fn_in.output[1]) # {})
    => /\ fn_out.success
       /\ fn_out.missing_count = Cardinality(KeysWithMissingFlag(fn_in.output[1]))
       /\ fn_out.rows_extracted = Len(RowsWithKey(KeysWithMissingFlag(fn_in.output[1])))
       /\ ResultHolds(KeysWithMissingFlag(fn_in.output[1]))

\* a call that selects S1 by a blank flag and writes its two rows in order
C18_BlankFlagSelected ==
    /\ ExtractReturned
    /\ fn_in.output[1].rows = << <<S1, Blank>>, <<S2, Yes>> >>
    /\ Len(fn_out.written) = 2
    /\ fn_out.written[2].df.rows = << <<S1, Red>>, <<S1, Blue>> >>

\* the cell of row r of a table under a label
CellAt(table, r, label) == table.rows[r][IndexOf(table.cols, label)]

\* the row of a table that has the key k
RowOfKey(table, k) == CHOOSE r \in 1..Len(table.rows) : CellAt(table, r, styleId) = k

KeysOf(table) == {CellAt(table, r, styleId) : r \in 1..Len(table.rows)}

\* a call of merge_sample_output on two tables that have rows and the key column
MergeReturned ==
    /\ fn = "merge_sample_output" /\ fn_pc = "return"
    /\ Len(fn_in.output.rows) > 0 /\ Len(fn_in.sample.rows) > 0
    /\ styleId \in Range(fn_in.output.cols) /\ styleId \in Range(fn_in.sample.cols)

NextSheetVariantIdentifier ==
    /\ pc = "loop" /\ sheet_i > 1 /\ sheet_i <= Len(size_sheets)
    /\ size_sheets[sheet_i] \in Range(sheet_names(prod_xl))
    /\ LET size_df == parse(SheetNamed(size_xl, size_sheets[sheet_i]))
           prod_df == parse(SheetNamed(prod_xl, size_sheets[sheet_i]))
       IN  /\ find_style_column(size_df.cols)[1] # None
           /\ ~empty(prod_df)
           /\ find_style_column(prod_df.cols)[1] # None
           /\ IsVariant(find_style_column(prod_df.cols)[1])

\* C20: when a later sheet's product-table identifier column is spelled with
\* different case or whitespace than the spelling an earlier sheet registered,
\* the iteration renames the product table, joins it with the aggregated size
\* table on the identifier column and collects the sheet's table: it ends in no
\* error and the loop goes on to the next sheet.
C20_VariantIdentifierStillJoined ==
    [][NextSheetVariantIdentifier
       => /\ pc' = "loop"
          /\ Len(final_dfs') = Len(final_dfs) + 1
          /\ result' = result]_vars

\* the t-th collected table comes from a sheet that has product rows with an
\* identifier column of their own and a size block
JoinedSheet(t) ==
    /\ ~empty(ProductTableOf(t))
    /\ find_style_column(ProductTableOf(t).cols)[1] # None
    /\ find_brand_size_column(SizeTableOf(t).cols) # None

\* the identifiers of the product rows of the sheet, an absent one included
ProductKeys(t) ==
    Range(ColumnOf(ProductTableOf(t), find_style_column(ProductTableOf(t).cols)[1]))

\* the identifiers of the aggregated size table of the sheet
SizeKeys(t) ==
    Range(ColumnOf(SizeTableOf(t), find_style_column(SizeTableOf(t).cols)[1])) \ {None}

\* the rows of the t-th collected table whose identifier is k
JoinedRows(t, k) ==
    LET kp == IndexOf(ProductTableOf(t).cols, find_style_column(ProductTableOf(t).cols)[1])
    IN  SelectSeq(final_dfs[t].rows, LAMBDA row : row[kp] = k)

\* C21: the join of a sheet's product table with its aggregated size table is a
\* full outer join on the identifier: every product row is kept (several rows of
\* one identifier included), a row of an identifier the size table lacks has
\* absent size cells, and an identifier the product table lacks gets one row
\* with absent product cells.
C21_FullOuterJoin ==
    \A t \in 1..Len(final_dfs) :
       JoinedSheet(t) =>
       LET prod_df == ProductTableOf(t)
           np == Len(prod_df.cols)
           kp == IndexOf(prod_df.cols, find_style_column(prod_df.cols)[1])
           out == final_dfs[t]
       IN  /\ Len(out.rows) = Len(prod_df.rows) + Cardinality(SizeKeys(t) \ ProductKeys(t))
           /\ \A k \in ProductKeys(t) :
                 /\ [i \in 1..Len(JoinedRows(t, k)) |-> SubSeq(JoinedRows(t, k)[i], 1, np)]
                       = SelectSeq(prod_df.rows, LAMBDA row : row[kp] = k)
                 /\ k \notin SizeKeys(t)
                    => \A i \in 1..Len(JoinedRows(t, k)) :
                          \A c \in (np + 1)..Len(out.cols) : JoinedRows(t, k)[i][c] = None
           /\ \A k \in SizeKeys(t) \ ProductKeys(t) :
                 /\ Len(JoinedRows(t, k)) = 1
                 /\ \A c \in 1..np : c # kp => JoinedRows(t, k)[1][c] = None

\* C21 witness: product rows (S1, Red), (S1, Blue) and (absent, Red) joined with
\* the size rows of S2 alone: both rows of S1 and the row without identifier
\* are kept without size cells, and S2 has a row without product cells
C21_BothSidesKept ==
    /\ Len(final_dfs) = 1
    /\ final_dfs[1].cols = <<styleId, Color, BrandSize, UKSize>>
    /\ final_dfs[1].rows = << <<S1, Red, None, None>>, <<S1, Blue, None, None>>,
                              <<S2, None, M, six>>, <<None, Red, None, None>> >>

\* the name, lower-cased, contains the word
Mentions(name, word) ==
    \E i \in 1..Len(name) :
        i + Len(word) - 1 <= Len(name)
        /\ \A j \in 1..Len(word) : ToLower[name[i + j - 1]] = word[j]

\* the position at which the size block of the columns starts, 0 when there is none
BlockStart(cols) ==
    LET brand == {i \in 1..Len(cols) : Mentions(cols[i], <<"b","r","a","n","d">>)
                                        /\ Mentions(cols[i], <<"s","i","z","e">>)}
        size == {i \in 1..Len(cols) : Mentions(cols[i], <<"s","i","z","e">>)}
    IN  IF brand # {} THEN CHOOSE i \in brand : \A j \in brand : i <= j
        ELSE IF size # {} THEN CHOOSE i \in size : \A j \in size : i <= j
        ELSE 0

\* the tables of the sheet the loop is about to take
NextSizeTable == parse(SheetNamed(size_xl, size_sheets[sheet_i]))

NextProductTable ==
    IF size_sheets[sheet_i] \in Range(sheet_names(prod_xl))
    THEN parse(SheetNamed(prod_xl, size_sheets[sheet_i])) ELSE EmptyDataFrame

\* the loop takes a sheet that has an identifier column and collects its table
SheetCollected ==
    /\ pc = "loop" /\ sheet_i <= Len(size_sheets)
    /\ find_style_column(NextSizeTable.cols)[1] # None
    /\ Len(final_dfs') = Len(final_dfs) + 1

\* the names registered by the step
NewlyRegistered == Range(ordered_columns') \ Range(ordered_columns)

\* C22: the size block of a sheet starts at the first column whose lower-cased
\* name contains both "brand" and "size", else at the first column containing
\* "size", and runs through the last column: the columns the step adds to the
\* product columns are those of the block and no other.  When no column contains
\* "size" the sheet's table is its product table, cell for cell, and the step
\* registers no column of the size-chart sheet.
C22_SizeBlockOrProductTable ==
    [][SheetCollected =>
         LET size_df == NextSizeTable
             prod_df == NextProductTable
             sid == find_style_column(size_df.cols)[1]
             start == BlockStart(size_df.cols)
             block == IF start = 0 THEN <<>> ELSE SubSeq(size_df.cols, start, Len(size_df.cols))
             out == final_dfs'[Len(final_dfs')]
             np == IF empty(prod_df) THEN 1
                   ELSE IF find_style_column(prod_df.cols)[1] = None
                        THEN Len(prod_df.cols) + (IF sid \in Range(prod_df.cols) THEN 0 ELSE 1)
                        ELSE Len(prod_df.cols)
             has_ids == Range(ColumnOf(size_df, sid)) # {None} /\ size_df.rows # <<>>
         IN  /\ NewlyRegistered \subseteq
                   (Range(prod_df.cols) \cup {sid} \cup Range(block))
             /\ Len(out.cols) = np + (IF has_ids THEN Len(block) ELSE 0)
             /\ \A c \in (np + 1)..Len(out.cols) :
                   \E L \in Range(block) : out.cols[c] \in {L, L \o suffix_y}
             /\ has_ids => \A L \in Range(block) :
                               \E c \in (np + 1)..Len(out.cols) : out.cols[c] \in {L, L \o suffix_y}
             /\ start = 0 =>
                   /\ NewlyRegistered \subseteq (Range(prod_df.cols) \cup {sid})
                   /\ (~empty(prod_df) /\ find_style_column(prod_df.cols)[1] # None)
                      => /\ out.rows = prod_df.rows
                         /\ out.cols = [c \in 1..Len(prod_df.cols) |->
                                          canonical_cols'[normalize_col(prod_df.cols[c])]]]_vars

\* C22 witness: of the columns styleId, UK Size, Brand Size, EU Size the block
\* is Brand Size and EU Size: UK Size, left of "Brand Size", is not registered
C22_BlockStartsAtBrandSize ==
    /\ pc = "done" /\ result.success
    /\ Len(size_xl) = 1 /\ size_xl[1].cols = <<styleId, UKSize, BrandSize, EUSize>>
    /\ ordered_columns = <<styleId, Color, BrandSize, EUSize>>

\* a sheet without any "size" column has been collected as its product table
C22_NoSizeColumn ==
    /\ Len(final_dfs) = 1
    /\ size_xl[1].cols = <<Style_ID, Color>>
    /\ final_dfs[1] = Table(<<styleId, Color>>, << <<S1, Red>> >>)
    /\ ordered_columns = <<styleId, Color>>

\* C23: when a processed sheet is absent from the product-details workbook or
\* its product table has no rows, the table the step collects is built on a
\* single product column, named like the identifier column of the size table
\* (up to letter case and white space), in which each distinct identifier of the size
\* table stands exactly once; the size cells of each row are those aggregated
\* for its identifier, the column being the join key.
C23_SynthesizedProductTable ==
    [][(SheetCollected /\ empty(NextProductTable)) =>
         LET size_df == NextSizeTable
             sid == find_style_column(size_df.cols)[1]
             ids == Range(ColumnOf(size_df, sid)) \ {None}
             start == BlockStart(size_df.cols)
             block == IF start = 0 THEN <<>> ELSE SubSeq(size_df.cols, start, Len(size_df.cols))
             agg == pivot_aggregated(size_df, sid, block)
             out == final_dfs'[Len(final_dfs')]
         IN  /\ normalize_col(out.cols[1]) = normalize_col(sid)
             /\ Len(out.cols) = 1 + (IF ids = {} THEN 0 ELSE Len(block))
             /\ \A k \in ids :
                   /\ Cardinality({r \in 1..Len(out.rows) : out.rows[r][1] = k}) = 1
                   /\ start # 0 =>
                         \E r \in 1..Len(out.rows) : \E a \in 1..Len(agg.rows) :
                            out.rows[r][1] = k /\ agg.rows[a][1] = k
                            /\ Tail(out.rows[r]) = Tail(agg.rows[a])
             /\ \A r \in 1..Len(out.rows) : out.rows[r][1] \in ids \cup {None}]_vars

\* C23 witness: a sheet the product workbook lacks, with two size rows of S1 and
\* one of S2: the collected table has one row for S1 and one for S2
C23_OneRowPerIdentifier ==
    /\ Len(final_dfs) = 1
    /\ size_xl[1].name \notin Range(sheet_names(prod_xl))
    /\ Len(size_xl[1].rows) = 2
    /\ size_xl[1].rows[1][1] = S2 /\ size_xl[1].rows[2][1] = S1
    /\ Len(final_dfs[1].rows) = 2
    /\ final_dfs[1].rows[1][1] = S1 /\ final_dfs[1].rows[2][1] = S2

\* C23 witness: a product table without rows is replaced as well
C23_RepeatedIdentifierOnce ==
    /\ Len(final_dfs) = 1
    /\ size_xl[1].name \in Range(sheet_names(prod_xl))
    /\ size_xl[1].rows = SZ1.rows
    /\ final_dfs[1].cols = <<styleId, BrandSize, UKSize>>
    /\ final_dfs[1].rows = << <<S1, M, <<"6", ",", "8">> >> >>

\* the loop has run through every sheet and has collected at least one table
AllSheetsCollected == pc = "done" /\ sheet_i > Len(size_sheets) /\ final_dfs # <<>>

NoDataProduced ==
    result = Failure("No data produced after merging. Check input file formats.", "", <<>>)

\* C24: when the per-sheet tables together have zero rows, the run ends in the
\* Failure "No data produced after merging" and writes no workbook; when one of
\* them has a row, a table with zero rows among them is no error: the run does
\* not end in that Failure, and it ends in Success when the workbook can be
\* written and the tables can be concatenated.
C24_NoDataOnlyWhenNoRows ==
    AllSheetsCollected =>
       /\ (\A t \in 1..Len(final_dfs) : final_dfs[t].rows = <<>>)
          => (NoDataProduced /\ output_file = NoFile)
       /\ (\E t \in 1..Len(final_dfs) : final_dfs[t].rows # <<>>)
          => /\ ~NoDataProduced
             /\ (write_ok /\ to_excel_ok /\ ~ConcatRaises(final_dfs)) => result.success

\* C24 witness: two sheets without rows have been collected and the run has
\* ended in "No data produced after merging"
C24_TwoSheetsWithoutRows ==
    /\ AllSheetsCollected /\ Len(final_dfs) = 2
    /\ NoDataProduced /\ output_file = NoFile

\* a run with a table of zero rows and a table with a row has ended in Success
C24_EmptySheetAmongOthers ==
    /\ AllSheetsCollected /\ result.success /\ Len(final_dfs) = 2
    /\ final_dfs[1].rows = <<>> /\ final_dfs[2].rows # <<>>

\* C25: the excluded sheets are exactly those of the list the caller passes:
\* the sheets the loop takes are the sheets of the size chart whose name is not
\* in that list, so with an empty list no sheet is excluded and a sheet named
\* "masterdata" is processed.
C25_ExcludedExactlyAsPassed ==
    [][(pc = "select" /\ exclude_arg.given)
       => size_sheets' = SelectSeq(sheet_names(size_xl),
                                   LAMBDA n : n \notin Range(exclude_arg.names))]_vars

\* C26: in every successful ImportResult sheets_processed is the number of
\* sheets that contributed a table (a sheet skipped for lack of an identifier
\* column is not counted), rows_processed the number of Values rows and
\* columns_count the number of canonical columns (of a Values header that
\* holds no name twice).
C26_CountsOfTheResult ==
    Succeeded
    => /\ result.sheets_processed = Len(final_dfs)
       /\ result.rows_processed = Len(output_file[2].df.rows)
       /\ ~HasDuplicates(final_df.cols) => result.columns_count = Len(ordered_columns)

\* C27: whenever extract_rows_with_missing_ai_flag returns success=True the
\* file at its output_path has been written, and process_extract_missing on
\* the same workbooks returns success=True with the data of that file; this
\* holds when no key has a missing flag (zero rows extracted) as well.
C27_SuccessMeansFileWritten ==
    /\ (fn = "extract_rows_with_missing_ai_flag" /\ fn_pc = "return" /\ fn_out.success)
       => fn_out.written # NoFile
    /\ (fn = "process_extract_missing" /\ fn_pc = "return"
        /\ extract_rows_with_missing_ai_flag(fn_in.input, fn_in.output).success)
       => (fn_out.success /\ fn_out.data # NoFile)

\* C28: merge_sample_output leaves the shape of the main table unchanged: the
\* result has the main table's columns in the main table's column order (the
\* key column keeps its position) and the main table's rows in their order.
C28_ShapeOfMainTableKept ==
    MergeReturned
    => /\ fn_out.success
       /\ fn_out.written.cols = fn_in.output.cols
       /\ [r \in 1..Len(fn_out.written.rows) |-> CellAt(fn_out.written, r, styleId)]
             = [r \in 1..Len(fn_in.output.rows) |-> CellAt(fn_in.output, r, styleId)]

\* C29: every row of the Values sheet has a non-empty identifier: in each
\* per-sheet merged table the cell of that sheet's identifier column is never
\* absent, also when size-chart rows have a missing identifier and the product
\* table is synthesized from the size table.
C29_IdentifierNeverAbsent ==
    \A t \in 1..Len(final_dfs) :
       \A r \in 1..Len(final_dfs[t].rows) :
          final_dfs[t].rows[r][IndexOf(final_dfs[t].cols, DisplayName(JoinColumn(t)))] # None

\* a row of the Values sheet that comes from the t-th table carries the
\* identifier k and, under the label, the value v
ValuesRowCarries(t, k, label, v) ==
    \E r \in 1..Len(Segment(t)) : \E ck, cv \in 1..Len(final_df.cols) :
        /\ final_df.cols[ck] = DisplayName(JoinColumn(t))
        /\ Segment(t)[r][ck] = (IF k = None THEN <<>> ELSE k)
        /\ final_df.cols[cv] = label
        /\ Segment(t)[r][cv] = v

\* C30: no product value is lost by the merge: every non-absent cell of a
\* processed sheet's product table stands in the Values sheet, in a row of the
\* same identifier, under the canonical name of its column, also when a
\* size-block column of the sheet has the name of a product column.
C30_NoProductValueLost ==
    Succeeded
    => \A t \in 1..Len(final_dfs) :
          LET prod_df == ProductTableOf(t)
              pid == IF empty(prod_df) THEN None ELSE find_style_column(prod_df.cols)[1]
          IN  ~empty(prod_df) =>
              \A r \in 1..Len(prod_df.rows) : \A c \in 1..Len(prod_df.cols) :
                 prod_df.rows[r][c] # None
                 => ValuesRowCarries(t,
                                     IF pid = None THEN prod_df.rows[r][1]
                                     ELSE prod_df.rows[r][IndexOf(prod_df.cols, pid)],
                                     DisplayName(prod_df.cols[c]), prod_df.rows[r][c])

====
